---- MODULE Spec2Model ----
(***************************************************************************)
(* A model of the synthesizer core of paynt: the hole / design-space data  *)
(* model (sketch/holes.py), the z3-backed enumeration of assignments       *)
(* (DesignSpace.z3_* / pick_assignment / exclude_assignment) and the       *)
(* synthesis loops of synthesizers/synthesizer.py (AR, CEGIS, hybrid).     *)
(*                                                                         *)
(* Conventions.                                                            *)
(*  - An optional value (Python None / a value) is a set with at most one  *)
(*    element: None is {}, a value x is {x}.                               *)
(*  - Python lists are sequences; hole indices are positions 1..n (the     *)
(*    source counts them from 0).                                          *)
(*  - A z3 model of the solver is a function from hole positions to        *)
(*    integers; `check` may return any of them.                            *)
(***************************************************************************)
EXTENDS Integers, Sequences, FiniteSets, TLC

VARIABLES
    design_space,           \* sketch.design_space: the baseline DesignSpace
    family,                 \* the family object the caller currently holds
    origin,                 \* history: the family the caller started refining from
    refines,                \* history: number of refinement calls made
    solver,                 \* DesignSpace.solver / solver_vars (class attributes)
    assignment,             \* last return value of pick_assignment
    picked,                 \* history: assignment was returned by pick_assignment on
                            \*   `family` and no exclude_assignment was called since
    promised,               \* history: the assignments the exclude_assignment calls
                            \*   on this solver were meant to block
    truth,                  \* the Markov chains of the sketch: for each assignment the
                            \*   properties its DTMC violates and the value of the objective
    optimality_property,    \* sketch.optimality_property (None, or direction and optimum)
    pc,                     \* position of the running synthesizer
    families,               \* SynthesizerAR.synthesize: the stack of families
    satisfying_assignment,  \* local variable of synthesize / run
    stat,                   \* self.stat of the running synthesizer
    finished,               \* what each synthesizer ended with
    analysed,               \* history: the assignments whose DTMC CEGIS model-checked
    updates,                \* history: number of update_optimum calls
    heap,                   \* the Python objects of a client of holes.py, by address
    source,                 \* address of the object the client calls a method on
    obtained,               \* address of the object the method returned
    arguments,              \* addresses of the lists the client passed to the method
    snapshot,               \* history: the value of `source` before the call
    made_by,                \* history: the method that returned `obtained`
    mutations,              \* history: number of mutations the client made since
    coloring,               \* CombinationColoring.coloring
    reverse_coloring,       \* CombinationColoring.reverse_coloring
    last_color,             \* history: the last get_or_make_color call and its color
    last_subcolors,         \* history: the last subcolors call and the colors returned
    stage_control,          \* the attributes of a StageControl object
    stage_call,             \* history: the last call on it, its arguments and outcome
    stage_calls,            \* history: number of calls made on it
    storm_control,          \* the attributes of a StormPOMDPControl object
    storm_call,             \* history: the last call on it, its arguments and outcome
    constructed,            \* history: the last constructor call and its outcome
    solver_result,          \* history: what solver.check gave pick_assignment last
    oracle_heap,            \* the dictionaries and lists of a StormPOMDPControl, by address
    oracle_self,            \* its attributes: addresses of dictionaries, and values
    s_queue,                \* self.s_queue: the tuples put and not yet taken
    received,               \* the tuples the synthesis loop took from the queue
    pomdp_manager,          \* quotient_container.pomdp_manager of a SynthesizerPOMDP
    pomdp_call,             \* history: the last call strategy_2 made, and its outcome
    driver,                 \* the locals of SynthesizerPOMDP.strategy_2 / strategy_3
    sim                     \* a SimulatedModel and the locals of its sample_path

holesVars == <<design_space, family, origin, refines>>
satVars == <<solver, assignment, picked, promised>>
synthVars == <<truth, optimality_property, pc, families, satisfying_assignment, stat,
               finished, analysed, updates>>
coreVars == <<holesVars, satVars, synthVars>>
heapVars == <<heap, source, obtained, arguments, snapshot, made_by, mutations>>
coloringVars == <<coloring, reverse_coloring, last_color, last_subcolors>>
stageVars == <<stage_control, stage_call, stage_calls>>
stormVars == <<storm_control, storm_call>>
buildVars == <<constructed>>
checkVars == <<solver_result>>
queueVars == <<oracle_heap, oracle_self, s_queue, received>>
pomdpVars == <<pomdp_manager, pomdp_call>>
driverVars == <<driver>>
simVars == <<sim>>
objectVars == <<heapVars, coloringVars, stageVars, stormVars, buildVars, queueVars,
                pomdpVars, driverVars, simVars>>
componentVars == <<objectVars, checkVars>>
nonHeapVars == <<coreVars, checkVars, coloringVars, stageVars, stormVars, buildVars, queueVars,
                 pomdpVars, driverVars, simVars>>
nonColoringVars == <<coreVars, checkVars, heapVars, stageVars, stormVars, buildVars, queueVars,
                 pomdpVars, driverVars, simVars>>
nonStageVars == <<coreVars, checkVars, heapVars, coloringVars, stormVars, buildVars, queueVars,
                 pomdpVars, driverVars, simVars>>
nonStormVars == <<coreVars, checkVars, heapVars, coloringVars, stageVars, buildVars, queueVars,
                 pomdpVars, driverVars, simVars>>
nonBuildVars == <<coreVars, checkVars, heapVars, coloringVars, stageVars, stormVars, queueVars,
                 pomdpVars, driverVars, simVars>>
nonQueueVars == <<coreVars, checkVars, heapVars, coloringVars, stageVars, stormVars, buildVars,
                  pomdpVars, driverVars, simVars>>
nonPomdpVars == <<coreVars, checkVars, heapVars, coloringVars, stageVars, stormVars, buildVars,
                  queueVars, driverVars, simVars>>
nonDriverVars == <<checkVars, heapVars, coloringVars, stageVars, stormVars, buildVars,
                   queueVars, simVars>>
nonSimVars == <<coreVars, checkVars, heapVars, coloringVars, stageVars, stormVars, buildVars,
                queueVars, pomdpVars, driverVars>>
vars == <<design_space, family, origin, refines, solver, assignment, picked, promised,
          truth, optimality_property, pc, families, satisfying_assignment, stat,
          finished, analysed, updates,
          heap, source, obtained, arguments, snapshot, made_by, mutations,
          coloring, reverse_coloring, last_color, last_subcolors,
          stage_control, stage_call, stage_calls,
          storm_control, storm_call, constructed, solver_result,
          oracle_heap, oracle_self, s_queue, received, pomdp_manager, pomdp_call,
          driver, sim>>

----------------------------------------------------------------------------
(* Bounds of the model.                                                    *)

\* refinement calls (assume_*, pick_any, copy) explored in one behaviour
MaxRefines == 2

----------------------------------------------------------------------------
(* Optional values and small helpers.                                      *)

None == {}
Some(x) == {x}
The(opt) == CHOOSE x \in opt : TRUE

Range(s) == {s[i] : i \in DOMAIN s}

RECURSIVE Prod(_)
Prod(s) == IF s = <<>> THEN 1 ELSE Head(s) * Prod(Tail(s))

\* all sub-lists of a list (order kept)
RECURSIVE SubLists(_)
SubLists(s) ==
    IF s = <<>> THEN {<<>>}
    ELSE LET rest == SubLists(Tail(s))
         IN  rest \cup {<<Head(s)>> \o r : r \in rest}

----------------------------------------------------------------------------
(* sketch/holes.py: class Hole.                                            *)

Hole(name, options, option_labels) ==
    [name |-> name, options |-> options, option_labels |-> option_labels]

Hole_size(hole) == Len(hole.options)

Hole_copy(hole) == Hole(hole.name, hole.options, hole.option_labels)

Hole_assume_suboptions(hole, suboptions) ==
    Hole(hole.name, suboptions, hole.option_labels)

----------------------------------------------------------------------------
(* sketch/holes.py: class Holes (a list of holes) and class DesignSpace.   *)
(* An object of either class is a record; `class` tells which one it is,   *)
(* `properties` and `encoding` are None for a plain Holes.                 *)

Holes(holes) ==
    [class |-> "Holes", holes |-> holes, properties |-> None, encoding |-> None]

DesignSpace(holes, properties) ==
    [class |-> "DesignSpace", holes |-> holes, properties |-> properties,
     encoding |-> None]

num_holes(self) == Len(self.holes)

hole_indices(self) == 1..Len(self.holes)

Holes_size(self) == Prod([i \in DOMAIN self.holes |-> Hole_size(self.holes[i])])

Holes_copy(self) == Holes([i \in DOMAIN self.holes |-> Hole_copy(self.holes[i])])

\* DesignSpace(super().copy()) followed by set_properties(self.properties.copy())
DesignSpace_copy(self) ==
    DesignSpace(Holes_copy(self).holes, self.properties)

\* self.copy() dispatches on the class of self
copy(self) ==
    IF self.class = "DesignSpace" THEN DesignSpace_copy(self) ELSE Holes_copy(self)

assume_hole_suboptions(self, hole_index, suboptions) ==
    LET result == copy(self)
    IN  [result EXCEPT !.holes[hole_index] =
            Hole_assume_suboptions(self.holes[hole_index], suboptions)]

Holes_assume_suboptions(self, hole_suboptions) ==
    Holes([hole_index \in DOMAIN self.holes |->
            Hole_assume_suboptions(self.holes[hole_index], hole_suboptions[hole_index])])

\* a pick_any that takes option-id 0 in place of the first option of the hole
pick_any_option_zero(self) ==
    Holes_assume_suboptions(self, [i \in DOMAIN self.holes |-> <<0>>])

\* pick_any taking the last option of every hole
pick_any_last_option(self) ==
    Holes_assume_suboptions(self,
        [i \in DOMAIN self.holes |-> <<self.holes[i].options[Len(self.holes[i].options)]>>])

pick_any(self) ==
    LET suboptions == [i \in DOMAIN self.holes |-> <<self.holes[i].options[1]>>]
    IN  Holes_assume_suboptions(self, suboptions)

includes(self, hole_options) ==
    \A hole_index \in DOMAIN hole_options :
        hole_options[hole_index] \in Range(self.holes[hole_index].options)

----------------------------------------------------------------------------
(* Sketches: the design spaces the parsed sketch hands to the core.  A     *)
(* sketch hole has one option-id per label, 0 .. len(option_labels)-1.     *)

OptionLabels == <<"a", "b", "c">>

SketchHole(name, size) ==
    Hole(name, [k \in 1..size |-> k - 1], SubSeq(OptionLabels, 1, size))

SketchSpace(sizes, properties) ==
    DesignSpace([i \in DOMAIN sizes |-> SketchHole(i, sizes[i])], properties)

\* hole sizes of the sketches explored: the fixtures S1, S2, S4 and S5 of the
\* specification
SketchSizes == {<<2>>, <<2, 2>>, <<3, 2>>, <<2, 2, 2>>}

\* the option lists a caller may pass for a hole: the non-empty sub-lists of
\* its current options
SubOptions(hole) == SubLists(hole.options) \ {<<>>}

\* the assignments of a family, as functions from hole positions to option-ids
Assignments(self) ==
    {a \in [DOMAIN self.holes -> UNION {Range(self.holes[i].options) : i \in DOMAIN self.holes}] :
        \A i \in DOMAIN self.holes : a[i] \in Range(self.holes[i].options)}

\* every family obtained from self by restricting holes to sub-lists of options
SubFamilies(self) ==
    {[self EXCEPT !.holes = [i \in DOMAIN self.holes |->
            Hole_assume_suboptions(self.holes[i], so[i])]] :
        so \in {f \in [DOMAIN self.holes -> UNION {SubOptions(self.holes[i]) : i \in DOMAIN self.holes}] :
                    \A i \in DOMAIN self.holes : f[i] \in SubOptions(self.holes[i])}}

SketchProperties == <<"p1">>

\* the synthesizers are not running
NoSynthesis ==
    /\ truth = <<>>
    /\ optimality_property = None
    /\ pc = "idle"
    /\ families = <<>>
    /\ satisfying_assignment = None
    /\ stat = <<>>
    /\ finished = <<>>
    /\ analysed = {}
    /\ updates = 0

\* the state of the components a specification does not exercise
NoHeap ==
    /\ heap = <<>>
    /\ source = 0
    /\ obtained = 0
    /\ arguments = {}
    /\ snapshot = <<>>
    /\ made_by = None
    /\ mutations = 0

NoColoring ==
    /\ coloring = <<>>
    /\ reverse_coloring = <<>>
    /\ last_color = None
    /\ last_subcolors = None

NoStage ==
    /\ stage_control = <<>>
    /\ stage_call = None
    /\ stage_calls = 0

NoStorm ==
    /\ storm_control = <<>>
    /\ storm_call = None

NoBuild == constructed = None

NoCheck == solver_result = None

NoQueue ==
    /\ oracle_heap = <<>>
    /\ oracle_self = <<>>
    /\ s_queue = None
    /\ received = <<>>

NoPomdp ==
    /\ pomdp_manager = <<>>
    /\ pomdp_call = None

NoDriver == driver = <<>>

NoSim == sim = <<>>

NoComponents ==
    /\ NoHeap /\ NoColoring /\ NoStage /\ NoStorm /\ NoBuild /\ NoCheck /\ NoQueue
    /\ NoPomdp /\ NoDriver /\ NoSim

----------------------------------------------------------------------------
(* sketch/holes.py: the z3 encoding of DesignSpace.  The solver is the     *)
(* class attribute DesignSpace.solver: one integer variable per hole with  *)
(* its range assertions, and the clauses added so far.  The clauses are    *)
(* kept by what they mean: `blocked` is the set of valuations of the       *)
(* variables that falsify one of them.  A clause Not(And(cs)) is handed    *)
(* over as the list cs, each conjunct as the set of values it allows.      *)

z3_initialize(self) ==
    Some([lower |-> [hole_index \in DOMAIN self.holes |-> 0],
          upper |-> [hole_index \in DOMAIN self.holes |-> Hole_size(self.holes[hole_index])],
          blocked |-> {}])

\* an encoding that admits the first option of every hole only
z3_encode_first_options(self) ==
    [self EXCEPT !.encoding =
        Some([hole_index \in DOMAIN self.holes |-> {self.holes[hole_index].options[1]}])]

z3_encode(self) ==
    [self EXCEPT !.encoding =
        Some([hole_index \in DOMAIN self.holes |-> Range(self.holes[hole_index].options)])]

\* And(cs) under a valuation m
Conj(cs, m) == \A i \in DOMAIN cs : m[i] \in cs[i]

\* the valuations that satisfy the range assertions of the solver
Valuations(s) ==
    {m \in [DOMAIN s.upper -> UNION {s.lower[i]..(s.upper[i] - 1) : i \in DOMAIN s.upper}] :
        \A i \in DOMAIN s.upper : s.lower[i] <= m[i] /\ m[i] < s.upper[i]}

\* solver.add(Not(And(cs)))
solver_add_not_and(s, cs) ==
    [s EXCEPT !.blocked = @ \cup {m \in Valuations(s) : Conj(cs, m)}]

\* the models z3 can return for check(assumption)
SolverModels(s, assumption) ==
    {m \in Valuations(s) \ s.blocked : Conj(assumption, m)}

\* what pick_assignment may return: None, or the singleton of a model
pick_assignment(self, s) ==
    LET models == SolverModels(s, The(self.encoding))
    IN  IF models = {} THEN {None}
        ELSE {Some(Holes_assume_suboptions(self,
                    [hole_index \in DOMAIN self.holes |-> <<m[hole_index]>>])) : m \in models}

\* what solver.check(assumption) may give: sat or unsat by the models, or
\* unknown when z3 gives up
check(s, assumption) ==
    {IF SolverModels(s, assumption) = {} THEN "unsat" ELSE "sat", "unknown"}

\* pick_assignment reading a model unless the solver said unsat
pick_assignment_unless_unsat(self, s, check_result) ==
    IF check_result = "unsat" THEN {None}
    ELSE {Some(Holes_assume_suboptions(self,
                [hole_index \in DOMAIN self.holes |-> <<m[hole_index]>>])) :
            m \in SolverModels(s, The(self.encoding))} \cup
         (IF SolverModels(s, The(self.encoding)) = {} THEN {None} ELSE {})

\* pick_assignment when solver.check gave check_result
pick_assignment_checked(self, s, check_result) ==
    IF check_result # "sat" THEN {None} ELSE pick_assignment(self, s)

\* counterexample_clauses with the two branches exchanged
counterexample_clauses_swapped(self, witness, conflict) ==
    [hole_index \in DOMAIN self.holes |->
        IF hole_index \notin conflict
        THEN {witness.holes[hole_index].options[1]}
        ELSE Range(self.holes[hole_index].options)]

counterexample_clauses(self, witness, conflict) ==
    [hole_index \in DOMAIN self.holes |->
        IF hole_index \in conflict
        THEN {witness.holes[hole_index].options[1]}
        ELSE Range(self.holes[hole_index].options)]

\* an exclude_assignment that generalises over the options of the witness, not
\* over those of the family: it blocks the witness alone
exclude_assignment_witness_only(self, s, witness, conflict) ==
    solver_add_not_and(s, counterexample_clauses(witness, witness, conflict))

\* an exclude_assignment that asserts its clause on a new solver
exclude_assignment_new_solver(self, s, witness, conflict) ==
    solver_add_not_and([s EXCEPT !.blocked = {}],
                       counterexample_clauses(self, witness, conflict))

exclude_assignment(self, s, witness, conflict) ==
    solver_add_not_and(s, counterexample_clauses(self, witness, conflict))

----------------------------------------------------------------------------
(* The refinement algebra, called by a client on the family it holds.      *)

InitHoles ==
    /\ \E sizes \in SketchSizes : design_space = SketchSpace(sizes, SketchProperties)
    /\ origin \in SubFamilies(design_space)
    /\ family = origin
    /\ refines = 0
    /\ solver = None
    /\ assignment = None
    /\ picked = FALSE
    /\ promised = {}
    /\ NoSynthesis
    /\ NoComponents

Refined(result) ==
    /\ refines < MaxRefines
    /\ family' = result
    /\ refines' = refines + 1
    /\ UNCHANGED <<design_space, origin, satVars, synthVars, componentVars>>

AssumeHoleSuboptions ==
    \E hole_index \in hole_indices(family) :
        \E suboptions \in SubOptions(family.holes[hole_index]) :
            Refined(assume_hole_suboptions(family, hole_index, suboptions))

AssumeSuboptions ==
    \E sub \in SubFamilies(family) :
        Refined(Holes_assume_suboptions(family,
                    [i \in DOMAIN family.holes |-> sub.holes[i].options]))

PickAny == Refined(pick_any(family))

Copy == Refined(copy(family))

NextHoles == AssumeHoleSuboptions \/ AssumeSuboptions \/ PickAny \/ Copy

SpecHoles == InitHoles /\ [][NextHoles]_vars

----------------------------------------------------------------------------
(* The enumeration interface, called by a client on the family it holds:   *)
(* z3_initialize on the sketch's design space, then z3_encode,             *)
(* pick_assignment and exclude_assignment on a copy of the design space or *)
(* on families refined from it.                                            *)

\* the option-ids of a singleton family, by hole position
OptionsOf(singleton) == [i \in DOMAIN singleton.holes |-> singleton.holes[i].options[1]]

\* the valuations of the baseline that equal the witness on every hole of the
\* conflict and take an option of self on every other hole
Generalization(self, witness, conflict) ==
    {x \in Assignments(design_space) :
        /\ \A i \in conflict : x[i] = OptionsOf(witness)[i]
        /\ \A i \in hole_indices(self) \ conflict : x[i] \in Range(self.holes[i].options)}

InitSat ==
    /\ \E sizes \in SketchSizes : design_space = SketchSpace(sizes, SketchProperties)
    /\ origin = design_space
    /\ family = DesignSpace_copy(design_space)
    /\ refines = 0
    /\ solver = None
    /\ assignment = None
    /\ picked = FALSE
    /\ promised = {}
    /\ NoSynthesis
    /\ NoComponents

Z3Initialize ==
    /\ solver' = z3_initialize(design_space)
    /\ promised' = {}
    /\ picked' = FALSE
    /\ UNCHANGED <<holesVars, assignment, synthVars, componentVars>>

Z3Encode ==
    /\ solver # None
    /\ family.class = "DesignSpace"
    /\ family' = z3_encode(family)
    /\ UNCHANGED <<design_space, origin, refines, satVars, synthVars, componentVars>>

PickAssignment ==
    /\ solver # None
    /\ family.class = "DesignSpace"
    /\ family.encoding # None
    /\ \E check_result \in check(The(solver), The(family.encoding)) :
        /\ assignment' \in pick_assignment_checked(family, The(solver), check_result)
        /\ solver_result' = Some(check_result)
    /\ picked' = TRUE
    /\ UNCHANGED <<holesVars, solver, promised, synthVars, objectVars>>

ExcludeAssignment ==
    /\ solver # None
    /\ family.class = "DesignSpace"
    /\ assignment # None
    /\ \E conflict \in SUBSET hole_indices(family) :
        /\ solver' = Some(exclude_assignment(family, The(solver), The(assignment), conflict))
        /\ promised' = promised \cup Generalization(family, The(assignment), conflict)
    /\ picked' = FALSE
    /\ UNCHANGED <<holesVars, assignment, synthVars, componentVars>>

\* the caller narrows the family it holds
NarrowFamily ==
    /\ \E hole_index \in hole_indices(family) :
        \E suboptions \in SubOptions(family.holes[hole_index]) \ {family.holes[hole_index].options} :
            family' = assume_hole_suboptions(family, hole_index, suboptions)
    /\ picked' = FALSE
    /\ UNCHANGED <<design_space, origin, refines, solver, assignment, promised, synthVars, componentVars>>

\* the caller turns to a fresh copy of the sketch's design space
CopyDesignSpace ==
    /\ family.holes # design_space.holes
    /\ family' = DesignSpace_copy(design_space)
    /\ picked' = FALSE
    /\ UNCHANGED <<design_space, origin, refines, solver, assignment, promised, synthVars, componentVars>>

NextSat ==
    \/ Z3Initialize
    \/ Z3Encode
    \/ PickAssignment
    \/ ExcludeAssignment
    \/ NarrowFamily
    \/ CopyDesignSpace

SpecSat == InitSat /\ [][NextSat]_vars

\* baselines whose option-ids need not be 0..size-1: Hole(name, options,
\* option_labels) takes any list of options
EnumSpaces ==
    {DesignSpace(<<Hole(1, <<1, 2>>, OptionLabels)>>, SketchProperties),
     DesignSpace(<<Hole(1, <<0, 1>>, OptionLabels), Hole(2, <<1, 2>>, OptionLabels)>>,
                 SketchProperties),
     SketchSpace(<<2, 2>>, SketchProperties)}

InitEnum ==
    /\ design_space \in EnumSpaces
    /\ origin = design_space
    /\ family = DesignSpace_copy(design_space)
    /\ refines = 0
    /\ solver = None
    /\ assignment = None
    /\ picked = FALSE
    /\ promised = {}
    /\ NoSynthesis
    /\ NoComponents

SpecEnum == InitEnum /\ [][NextSat]_vars

----------------------------------------------------------------------------
(* The model-checking kernel and the quotient container, as the            *)
(* specification states their contracts (sections 4.4 to 4.6).  `truth`    *)
(* fixes, for every assignment of the sketch, the properties its DTMC      *)
(* violates and the value of the objective on it.  An MDP analysis of a    *)
(* family may return any answer that is sound for the members of the       *)
(* family, and is exact on a family of one member.                         *)

\* largest value of the objective in the sketches explored
MaxValue == 1

\* the sketches synthesized: hole sizes and properties (fixtures S1 and S2)
SynthSketches ==
    {[sizes |-> <<2>>, properties |-> <<"p1", "p2">>],
     [sizes |-> <<2, 2>>, properties |-> <<"p1">>]}

Members(fam) == Assignments(fam)

Violated(x) == truth[x].violated

Satisfies(x) == Violated(x) = {}

Value(x) == truth[x].value

\* value v is strictly better than value w
Better(v, w, minimizing) == IF minimizing THEN v < w ELSE v > w

\* prop.improves_optimum(value)
Improves(v, property) ==
    property.optimum = None \/ Better(v, The(property.optimum), property.minimizing)

\* optimality_property.update_optimum(optimum)
update_optimum(property, optimum) == [property EXCEPT !.optimum = Some(optimum)]

\* mdp.check_properties(family.properties): the feasibility flag
mdp_check_properties(fam) ==
    {feasible \in {"True", "False", "None"} :
        CASE feasible = "True" -> \A m \in Members(fam) : Satisfies(m)
          [] feasible = "False" -> \A m \in Members(fam) : ~Satisfies(m)
          [] feasible = "None" -> Holes_size(fam) > 1}

\* mdp.check_optimality(optimality_property): optimum, improving_assignment and
\* can_improve (all members of fam satisfy the properties when it is called)
mdp_check_optimality(fam, property) ==
    LET improving == {m \in Members(fam) : Improves(Value(m), property)}
        noBetter(v) == \A m \in Members(fam) : ~Better(Value(m), v, property.minimizing)
    IN  {[optimum |-> None, improving_assignment |-> None, can_improve |-> c] :
            c \in {b \in BOOLEAN : IF b THEN Holes_size(fam) > 1 ELSE improving = {}}}
        \cup
        {[optimum |-> Some(Value(o.m)),
          improving_assignment |-> Some(Holes_assume_suboptions(fam,
                                    [i \in DOMAIN fam.holes |-> <<o.m[i]>>])),
          can_improve |-> o.c] :
            o \in {q \in [m : improving, c : BOOLEAN] :
                        IF q.c THEN Holes_size(fam) > 1 ELSE noBetter(Value(q.m))}}

\* quotient_container.prepare_split: two subfamilies that partition fam along
\* one hole
prepare_split(fam) ==
    {<<assume_hole_suboptions(fam, h.hole_index, h.left),
       assume_hole_suboptions(fam, h.hole_index, h.right)>> :
        h \in {q \in [hole_index : hole_indices(fam),
                      left : UNION {SubOptions(fam.holes[i]) : i \in hole_indices(fam)},
                      right : UNION {SubOptions(fam.holes[i]) : i \in hole_indices(fam)}] :
                /\ q.left \in SubOptions(fam.holes[q.hole_index])
                /\ q.right \in SubOptions(fam.holes[q.hole_index])
                /\ Range(q.left) \cap Range(q.right) = {}
                /\ Range(q.left) \cup Range(q.right) = Range(fam.holes[q.hole_index].options)}}

\* dtmc.check_properties_all(properties): sat and the unsatisfied properties
dtmc_check_properties_all(singleton) ==
    [sat |-> Satisfies(OptionsOf(singleton)),
     unsat_properties |-> Violated(OptionsOf(singleton))]

\* dtmc.check_optimality(optimality_property): optimum and improves
dtmc_check_optimality(singleton, property) ==
    [optimum |-> Value(OptionsOf(singleton)),
     improves |-> Improves(Value(OptionsOf(singleton)), property)]

----------------------------------------------------------------------------
(* synthesizers/synthesizer.py: Synthesizer, SynthesizerAR,                *)
(* SynthesizerCEGIS and SynthesizerHybrid, run one after the other, each   *)
(* on the sketch as it was parsed.                                         *)

\* Statistic(sketch, method_name)
Statistic == [iterations_mdp |-> 0, iterations_dtmc |-> 0, pruned |-> 0]

NoResult == [AR |-> None, CEGIS |-> None, Hybrid |-> None]

\* what a synthesizer ends with
Result(sat_assignment, property, error) ==
    [assignment |-> sat_assignment,
     optimum |-> IF property = None THEN None ELSE The(property).optimum,
     error |-> error]

\* the optimality property as parsed: no optimum yet
Parsed(property) ==
    IF property = None THEN None ELSE Some([The(property) EXCEPT !.optimum = None])

InitSynth ==
    /\ \E sk \in SynthSketches :
        /\ design_space = SketchSpace(sk.sizes, sk.properties)
        /\ \E opt \in {None} \cup {Some([minimizing |-> b, optimum |-> None]) : b \in BOOLEAN} :
            /\ optimality_property = opt
            /\ truth \in [Assignments(design_space) ->
                            [violated : SUBSET Range(sk.properties),
                             value : IF opt = None THEN {0} ELSE 0..MaxValue]]
    /\ origin = design_space
    /\ family = design_space
    /\ refines = 0
    /\ solver = None
    /\ assignment = None
    /\ picked = FALSE
    /\ promised = {}
    /\ pc = "start"
    /\ families = <<>>
    /\ satisfying_assignment = None
    /\ stat = Statistic
    /\ finished = NoResult
    /\ analysed = {}
    /\ updates = 0
    /\ NoComponents

\* Synthesizer.__init__ and the head of SynthesizerAR.synthesize(sketch.design_space)
ArStart ==
    /\ pc = "start"
    /\ stat' = Statistic
    /\ satisfying_assignment' = None
    /\ families' = <<design_space>>
    /\ pc' = "AR.loop"
    /\ UNCHANGED <<holesVars, satVars, truth, optimality_property, finished, analysed, updates, componentVars>>

\* a family whose feasibility is unknown is given up instead of split
can_improve_never(feasible) == FALSE

\* can_improve = feasible is None
can_improve(feasible) == feasible = "None"

\* a family that cannot improve is counted as one pruned model
ArPruneOne(fam, rest) ==
    /\ stat' = [stat EXCEPT !.iterations_mdp = @ + 1, !.pruned = @ + 1]
    /\ families' = rest

\* the rest of an iteration once the family is decided or not
ArPrune(fam, rest) ==
    /\ stat' = [stat EXCEPT !.iterations_mdp = @ + 1, !.pruned = @ + Holes_size(fam)]
    /\ families' = rest

\* a split that puts the subfamilies under the stack
ArSplitBelow(fam, rest) ==
    /\ stat' = [stat EXCEPT !.iterations_mdp = @ + 1]
    /\ \E subfamilies \in prepare_split(fam) : families' = subfamilies \o rest

\* a split that pushes the first subfamily only
ArSplitFirstOnly(fam, rest) ==
    /\ stat' = [stat EXCEPT !.iterations_mdp = @ + 1]
    /\ \E subfamilies \in prepare_split(fam) : families' = Append(rest, subfamilies[1])

ArSplit(fam, rest) ==
    /\ stat' = [stat EXCEPT !.iterations_mdp = @ + 1]
    /\ \E subfamilies \in prepare_split(fam) : families' = rest \o subfamilies

\* one iteration of the loop of SynthesizerAR.synthesize
ArIteration ==
    /\ pc = "AR.loop"
    /\ families # <<>>
    /\ LET fam == families[Len(families)]
           rest == SubSeq(families, 1, Len(families) - 1)
           has_optimality == optimality_property # None
       IN  \E feasible \in mdp_check_properties(fam) :
            IF feasible = "True" /\ ~has_optimality
            THEN /\ satisfying_assignment' = Some(pick_any(fam))
                 /\ stat' = [stat EXCEPT !.iterations_mdp = @ + 1]
                 /\ families' = rest
                 /\ pc' = "AR.break"
                 /\ UNCHANGED <<optimality_property, updates>>
            ELSE IF feasible = "True"
            THEN \E r \in mdp_check_optimality(fam, The(optimality_property)) :
                    /\ IF r.optimum # None
                       THEN /\ optimality_property' =
                                Some(update_optimum(The(optimality_property), The(r.optimum)))
                            /\ updates' = updates + 1
                            /\ satisfying_assignment' = r.improving_assignment
                       ELSE UNCHANGED <<optimality_property, updates, satisfying_assignment>>
                    /\ IF r.can_improve THEN ArSplit(fam, rest) ELSE ArPrune(fam, rest)
                    /\ pc' = pc
            ELSE /\ IF can_improve(feasible) THEN ArSplit(fam, rest) ELSE ArPrune(fam, rest)
                 /\ pc' = pc
                 /\ UNCHANGED <<optimality_property, updates, satisfying_assignment>>
    /\ UNCHANGED <<holesVars, satVars, truth, finished, analysed, componentVars>>

\* a loop that is left by its break only
ArFinishOnBreak ==
    /\ pc = "AR.break"
    /\ finished' = [finished EXCEPT !.AR =
                        Some(Result(satisfying_assignment, optimality_property, None))]
    /\ pc' = "AR.done"
    /\ UNCHANGED <<holesVars, satVars, truth, optimality_property, families,
                   satisfying_assignment, stat, analysed, updates, componentVars>>

\* the loop of synthesize is left: stat.finished, return satisfying_assignment
ArFinish ==
    /\ \/ pc = "AR.loop" /\ families = <<>>
       \/ pc = "AR.break"
    /\ finished' = [finished EXCEPT !.AR =
                        Some(Result(satisfying_assignment, optimality_property, None))]
    /\ pc' = "AR.done"
    /\ UNCHANGED <<holesVars, satVars, truth, optimality_property, families,
                   satisfying_assignment, stat, analysed, updates, componentVars>>

\* Synthesizer.__init__ and the head of SynthesizerCEGIS.run: z3_initialize,
\* z3_encode and the first pick_assignment on sketch.design_space
CegisStart ==
    /\ pc = "AR.done"
    /\ stat' = Statistic
    /\ satisfying_assignment' = None
    /\ optimality_property' = Parsed(optimality_property)
    /\ solver' = z3_initialize(design_space)
    /\ design_space' = z3_encode(design_space)
    /\ assignment' \in pick_assignment(design_space', The(solver'))
    /\ updates' = 0
    /\ pc' = "CEGIS.loop"
    /\ UNCHANGED <<family, origin, refines, picked, promised, truth, families, finished,
                   analysed, componentVars>>

\* for conflict in conflicts: exclude_assignment(assignment, conflict)
RECURSIVE exclude_conflicts(_, _, _, _)
exclude_conflicts(self, s, witness, conflicts) ==
    IF conflicts = <<>> THEN s
    ELSE exclude_conflicts(self, exclude_assignment(self, s, witness, Head(conflicts)),
                           witness, Tail(conflicts))

\* no conflict is built for an analysed assignment
cegis_conflicts_none(witness, n_unsat_properties) == <<>>

\* no conflict is built for the last property of the list (the optimality
\* property when there is one)
cegis_conflicts_but_last(witness, n_unsat_properties) ==
    [k \in 1..(n_unsat_properties - 1) |-> hole_indices(witness)]

\* the conflicts of an analysed assignment: one per unsatisfied property, each
\* made of all hole indices
cegis_conflicts(witness, n_unsat_properties) ==
    [k \in 1..n_unsat_properties |-> hole_indices(witness)]

\* the rest of an iteration that does not stop the run
CegisExclude(witness, n_unsat_properties) ==
    LET conflicts == cegis_conflicts(witness, n_unsat_properties)
    IN  /\ solver' = Some(exclude_conflicts(design_space, The(solver), witness, conflicts))
        /\ stat' = [stat EXCEPT !.iterations_dtmc = @ + 1, !.pruned = @ + Len(conflicts)]
        /\ assignment' \in pick_assignment(design_space, The(solver'))
        /\ pc' = pc

\* a CEGIS update that does not ask whether the value improves the optimum
CegisUpdateAlways(sat, has_optimality, improves) == sat /\ has_optimality

\* a CEGIS update that does not ask whether the properties are satisfied
CegisUpdateUnchecked(sat, has_optimality, improves) == has_optimality /\ improves

\* the condition under which the optimum and the assignment are recorded
CegisUpdate(sat, has_optimality, improves) == sat /\ has_optimality /\ improves

\* one iteration of the loop of SynthesizerCEGIS.run
CegisIteration ==
    /\ pc = "CEGIS.loop"
    /\ assignment # None
    /\ LET witness == The(assignment)
           checked == dtmc_check_properties_all(witness)
           has_optimality == optimality_property # None
           n_unsat_properties ==
                Cardinality(checked.unsat_properties) + (IF has_optimality THEN 1 ELSE 0)
       IN  /\ analysed' = analysed \cup {OptionsOf(witness)}
           /\ IF checked.sat /\ ~has_optimality
              THEN /\ satisfying_assignment' = assignment
                   /\ stat' = [stat EXCEPT !.iterations_dtmc = @ + 1]
                   /\ pc' = "CEGIS.break"
                   /\ UNCHANGED <<solver, assignment, optimality_property, updates>>
              ELSE /\ IF CegisUpdate(checked.sat, has_optimality,
                            has_optimality /\ dtmc_check_optimality(witness, The(optimality_property)).improves)
                      THEN /\ optimality_property' =
                                Some(update_optimum(The(optimality_property),
                                    dtmc_check_optimality(witness, The(optimality_property)).optimum))
                           /\ updates' = updates + 1
                           /\ satisfying_assignment' = assignment
                      ELSE UNCHANGED <<optimality_property, updates, satisfying_assignment>>
                   /\ CegisExclude(witness, n_unsat_properties)
    /\ UNCHANGED <<holesVars, picked, promised, truth, families, finished, componentVars>>

\* the loop of run is left: stat.finished(satisfying_assignment)
CegisFinish ==
    /\ \/ pc = "CEGIS.loop" /\ assignment = None
       \/ pc = "CEGIS.break"
    /\ finished' = [finished EXCEPT !.CEGIS =
                        Some(Result(satisfying_assignment, optimality_property, None))]
    /\ pc' = "CEGIS.done"
    /\ UNCHANGED <<holesVars, satVars, truth, optimality_property, families,
                   satisfying_assignment, stat, analysed, updates, componentVars>>

\* SynthesizerHybrid.__init__: Synthesizer.__init__, z3_initialize, a new
\* StageControl and an empty family stack
HybridInit ==
    /\ pc = "CEGIS.done"
    /\ stat' = Statistic
    /\ optimality_property' = Parsed(optimality_property)
    /\ solver' = z3_initialize(design_space)
    /\ families' = <<>>
    /\ satisfying_assignment' = None
    /\ updates' = 0
    /\ pc' = "Hybrid.run"
    /\ UNCHANGED <<holesVars, assignment, picked, promised, truth, finished, analysed, componentVars>>

\* SynthesizerHybrid.run: FamilyHybrid() is created and family.construct() is
\* called; FamilyHybrid defines no construct (and has no base class), so the
\* call raises AttributeError and run ends without a verdict
HybridRun ==
    /\ pc = "Hybrid.run"
    /\ finished' = [finished EXCEPT !.Hybrid =
                        Some(Result(None, optimality_property, Some("AttributeError")))]
    /\ pc' = "Hybrid.raised"
    /\ UNCHANGED <<holesVars, satVars, truth, optimality_property, families,
                   satisfying_assignment, stat, analysed, updates, componentVars>>

NextSynth ==
    \/ ArStart
    \/ ArIteration
    \/ ArFinish
    \/ CegisStart
    \/ CegisIteration
    \/ CegisFinish
    \/ HybridInit
    \/ HybridRun

SpecSynth == InitSynth /\ [][NextSynth]_vars

\* SynthesizerAR.run alone, a sequential program that keeps taking its next
\* step
NextAr == ArStart \/ ArIteration \/ ArFinish

SpecArFair == InitSynth /\ [][NextAr]_vars /\ WF_vars(NextAr)

----------------------------------------------------------------------------
(* sketch/holes.py as Python executes it: objects on a heap.  A Hole       *)
(* refers to its list of options and to its list of option labels, a Holes *)
(* or DesignSpace object is a list of references to Hole objects, and a    *)
(* DesignSpace refers to its list of properties.  The heap is a sequence   *)
(* of objects, an address is a position in it, and every constructor call  *)
(* and list copy allocates a new address.                                  *)

\* mutations of a result explored in one behaviour
MaxMutations == 2

ListObject(items) ==
    [kind |-> "list", name |-> 0, items |-> items, options |-> 0, option_labels |-> 0,
     properties |-> None]

\* Hole.__init__ on the heap: the hole holds the references it is given
HoleObject(name, options, option_labels) ==
    [kind |-> "Hole", name |-> name, items |-> <<>>, options |-> options,
     option_labels |-> option_labels, properties |-> None]

\* Holes.__init__ / DesignSpace.__init__ on the heap: a list of hole references
HolesObject(class, items, properties) ==
    [kind |-> class, name |-> 0, items |-> items, options |-> 0, option_labels |-> 0,
     properties |-> properties]

Alloc(h, object) == [heap |-> Append(h, object), ref |-> Len(h) + 1]

\* list.copy(): a new list with the same items
list_copy(h, l) == Alloc(h, ListObject(h[l].items))

\* Hole.copy without the copy of the option list
heap_Hole_copy_shared(h, hole) ==
    Alloc(h, HoleObject(h[hole].name, h[hole].options, h[hole].option_labels))

\* Hole.copy
heap_Hole_copy(h, hole) ==
    LET options == list_copy(h, h[hole].options)
    IN  Alloc(options.heap, HoleObject(h[hole].name, options.ref, h[hole].option_labels))

\* Hole.assume_suboptions without the copy of the suboptions
heap_Hole_assume_suboptions_shared(h, hole, suboptions) ==
    Alloc(h, HoleObject(h[hole].name, suboptions, h[hole].option_labels))

\* Hole.assume_suboptions
heap_Hole_assume_suboptions(h, hole, suboptions) ==
    LET options == list_copy(h, suboptions)
    IN  Alloc(options.heap, HoleObject(h[hole].name, options.ref, h[hole].option_labels))

\* [hole.copy() for hole in self]
RECURSIVE heap_copy_each(_, _)
heap_copy_each(h, holes) ==
    IF holes = <<>> THEN [heap |-> h, refs |-> <<>>]
    ELSE LET first == heap_Hole_copy(h, Head(holes))
             others == heap_copy_each(first.heap, Tail(holes))
         IN  [heap |-> others.heap, refs |-> <<first.ref>> \o others.refs]

\* [hole.assume_suboptions(hole_suboptions[hole_index]) for hole_index,hole in enumerate(self)]
RECURSIVE heap_assume_each(_, _, _)
heap_assume_each(h, holes, hole_suboptions) ==
    IF holes = <<>> THEN [heap |-> h, refs |-> <<>>]
    ELSE LET first == heap_Hole_assume_suboptions(h, Head(holes), Head(hole_suboptions))
             others == heap_assume_each(first.heap, Tail(holes), Tail(hole_suboptions))
         IN  [heap |-> others.heap, refs |-> <<first.ref>> \o others.refs]

\* Holes.copy
heap_Holes_copy(h, self) ==
    LET holes == heap_copy_each(h, h[self].items)
    IN  Alloc(holes.heap, HolesObject("Holes", holes.refs, None))

\* DesignSpace.copy: the Holes object of super().copy() is handed to
\* DesignSpace.__init__, which lists its holes anew, and the properties list
\* is copied
heap_DesignSpace_copy(h, self) ==
    LET holes == heap_Holes_copy(h, self)
        properties == list_copy(holes.heap, The(h[self].properties))
    IN  Alloc(properties.heap,
              HolesObject("DesignSpace", holes.heap[holes.ref].items, Some(properties.ref)))

\* self.copy()
heap_copy(h, self) ==
    CASE h[self].kind = "Hole" -> heap_Hole_copy(h, self)
      [] h[self].kind = "Holes" -> heap_Holes_copy(h, self)
      [] h[self].kind = "DesignSpace" -> heap_DesignSpace_copy(h, self)

\* Holes.assume_hole_suboptions
heap_assume_hole_suboptions(h, self, hole_index, suboptions) ==
    LET copied == heap_copy(h, self)
        hole == heap_Hole_assume_suboptions(copied.heap, h[self].items[hole_index], suboptions)
    IN  [heap |-> [hole.heap EXCEPT ![copied.ref].items[hole_index] = hole.ref],
         ref |-> copied.ref]

\* Holes.assume_suboptions
heap_assume_suboptions(h, self, hole_suboptions) ==
    LET holes == heap_assume_each(h, h[self].items, hole_suboptions)
    IN  Alloc(holes.heap, HolesObject("Holes", holes.refs, None))

\* [[value(hole)] for hole in self]: one new list of one option per hole
RECURSIVE heap_singletons(_, _)
heap_singletons(h, options) ==
    IF options = <<>> THEN [heap |-> h, refs |-> <<>>]
    ELSE LET first == Alloc(h, ListObject(<<Head(options)>>))
             others == heap_singletons(first.heap, Tail(options))
         IN  [heap |-> others.heap, refs |-> <<first.ref>> \o others.refs]

\* Holes.pick_any
heap_pick_any(h, self) ==
    LET suboptions == heap_singletons(h,
            [i \in DOMAIN h[self].items |-> h[h[h[self].items[i]].options].items[1]])
    IN  heap_assume_suboptions(suboptions.heap, self, suboptions.refs)

\* DesignSpace.pick_assignment when the solver returns the model sat_model
heap_pick_assignment(h, self, sat_model) ==
    LET picked_options == heap_singletons(h, sat_model)
    IN  heap_assume_suboptions(picked_options.heap, self, picked_options.refs)

\* the value of an object: what its fields and items hold
HoleValue(h, hole) ==
    [name |-> h[hole].name, options |-> h[h[hole].options].items,
     option_labels |-> h[h[hole].option_labels].items]

Value_of(h, ref) ==
    IF h[ref].kind = "Hole" THEN HoleValue(h, ref)
    ELSE [class |-> h[ref].kind,
          holes |-> [i \in DOMAIN h[ref].items |-> HoleValue(h, h[ref].items[i])],
          properties |-> IF h[ref].properties = None THEN None
                         ELSE Some(h[The(h[ref].properties)].items)]

\* the addresses of the holes of an object (the object itself when it is a hole)
HolesAt(h, ref) == IF h[ref].kind = "Hole" THEN {ref} ELSE Range(h[ref].items)

\* the mutable objects an object is made of: itself, its holes, their option
\* lists and its properties list (the label lists are shared and never written)
Parts(h, ref) ==
    {ref} \cup HolesAt(h, ref) \cup {h[hole].options : hole \in HolesAt(h, ref)}
          \cup h[ref].properties

\* the holes of a sketch on the heap: for each hole a list of options
\* 0..size-1, a list of labels and the Hole object
RECURSIVE heap_sketch_holes(_, _, _)
heap_sketch_holes(h, sizes, name) ==
    IF sizes = <<>> THEN [heap |-> h, refs |-> <<>>]
    ELSE LET options == Alloc(h, ListObject([i \in 1..Head(sizes) |-> i - 1]))
             labels == Alloc(options.heap, ListObject(SubSeq(OptionLabels, 1, Head(sizes))))
             hole == Alloc(labels.heap, HoleObject(name, options.ref, labels.ref))
             others == heap_sketch_holes(hole.heap, Tail(sizes), name + 1)
         IN  [heap |-> others.heap, refs |-> <<hole.ref>> \o others.refs]

\* a Holes object or a DesignSpace of the sketch on the heap
heap_sketch(sizes, class) ==
    LET holes == heap_sketch_holes(<<>>, sizes, 1)
        properties == Alloc(holes.heap, ListObject(SketchProperties))
    IN  IF class = "Holes" THEN Alloc(holes.heap, HolesObject("Holes", holes.refs, None))
        ELSE Alloc(properties.heap, HolesObject("DesignSpace", holes.refs, Some(properties.ref)))

HeapSketchSizes == {<<2>>, <<3, 2>>}

\* the client holds a family of the sketch, or one of its holes
InitHeap ==
    /\ \E sizes \in HeapSketchSizes, class \in {"Holes", "DesignSpace"} :
        LET built == heap_sketch(sizes, class)
        IN  /\ heap = built.heap
            /\ source \in {built.ref} \cup Range(built.heap[built.ref].items)
    /\ obtained = 0
    /\ arguments = {}
    /\ snapshot = Value_of(heap, source)
    /\ made_by = None
    /\ mutations = 0
    /\ design_space = <<>>
    /\ family = <<>>
    /\ origin = <<>>
    /\ refines = 0
    /\ solver = None
    /\ assignment = None
    /\ picked = FALSE
    /\ promised = {}
    /\ NoSynthesis
    /\ NoColoring
    /\ NoStage
    /\ NoStorm
    /\ NoBuild
    /\ NoCheck
    /\ NoQueue
    /\ NoPomdp
    /\ NoDriver
    /\ NoSim

\* the client calls `method` on source and keeps what it returns
Returned(called, method, passed) ==
    /\ made_by = None
    /\ heap' = called.heap
    /\ obtained' = called.ref
    /\ arguments' = passed
    /\ made_by' = Some(method)
    /\ UNCHANGED <<source, snapshot, mutations, nonHeapVars>>

\* G = F.copy(), F a Hole, a Holes or a DesignSpace
HeapCopy ==
    /\ made_by = None
    /\ Returned(heap_copy(heap, source), "copy", {})

\* F.assume_suboptions(suboptions), F a Hole: the client passes a list of its
\* own or the option list of F itself
HeapHoleAssumeSuboptions ==
    /\ heap[source].kind = "Hole"
    /\ \/ \E suboptions \in SubLists(heap[heap[source].options].items) \ {<<>>} :
            LET passed == Alloc(heap, ListObject(suboptions))
            IN  Returned(heap_Hole_assume_suboptions(passed.heap, source, passed.ref),
                         "Hole.assume_suboptions", {passed.ref})
       \/ Returned(heap_Hole_assume_suboptions(heap, source, heap[source].options),
                   "Hole.assume_suboptions", {heap[source].options})

\* F.assume_hole_suboptions(hole_index, suboptions)
HeapAssumeHoleSuboptions ==
    /\ heap[source].kind # "Hole"
    /\ \E hole_index \in DOMAIN heap[source].items :
        LET own == heap[heap[source].items[hole_index]].options
        IN  \/ \E suboptions \in SubLists(heap[own].items) \ {<<>>} :
                 LET passed == Alloc(heap, ListObject(suboptions))
                 IN  Returned(heap_assume_hole_suboptions(passed.heap, source, hole_index,
                                                          passed.ref),
                              "assume_hole_suboptions", {passed.ref})
            \/ Returned(heap_assume_hole_suboptions(heap, source, hole_index, own),
                        "assume_hole_suboptions", {own})

\* F.assume_suboptions(hole_suboptions): the client passes the option lists of
\* F itself, or new lists holding the last option of each hole
HeapAssumeSuboptions ==
    /\ heap[source].kind # "Hole"
    /\ LET holes == heap[source].items
           own == [i \in DOMAIN holes |-> heap[holes[i]].options]
           last == [i \in DOMAIN holes |-> heap[own[i]].items[Len(heap[own[i]].items)]]
           passed == heap_singletons(heap, last)
       IN  \/ Returned(heap_assume_suboptions(heap, source, own),
                       "assume_suboptions", Range(own))
           \/ Returned(heap_assume_suboptions(passed.heap, source, passed.refs),
                       "assume_suboptions", Range(passed.refs))

\* F.pick_any()
HeapPickAny ==
    /\ heap[source].kind # "Hole"
    /\ Returned(heap_pick_any(heap, source), "pick_any", {})

\* F.pick_assignment() with a model of the encoding of F
HeapPickAssignment ==
    /\ heap[source].kind = "DesignSpace"
    /\ \E sat_model \in Assignments(Value_of(heap, source)) :
        Returned(heap_pick_assignment(heap, source, sat_model), "pick_assignment", {})

\* the client mutates what it got back, or a list it passed
Mutated(h) ==
    /\ made_by # None
    /\ mutations < MaxMutations
    /\ heap' = h
    /\ mutations' = mutations + 1
    /\ UNCHANGED <<source, obtained, arguments, snapshot, made_by, nonHeapVars>>

\* G[i].options.append(x), G.options.append(x)
MutateOptionsAppend ==
    /\ made_by # None
    /\ \E hole \in HolesAt(heap, obtained), x \in 0..2 :
            Mutated([heap EXCEPT ![heap[hole].options].items = Append(@, x)])

\* G[i].options.pop(0)
MutateOptionsPop ==
    /\ made_by # None
    /\ \E hole \in HolesAt(heap, obtained) :
            /\ heap[heap[hole].options].items # <<>>
            /\ Mutated([heap EXCEPT ![heap[hole].options].items = Tail(@)])

\* G[i].options = [x]
MutateOptionsAssign ==
    /\ made_by # None
    /\ \E hole \in HolesAt(heap, obtained), x \in 0..2 :
            LET options == Alloc(heap, ListObject(<<x>>))
            IN  Mutated([options.heap EXCEPT ![hole].options = options.ref])

\* G[i] = Hole(name, [0], option_labels)
MutateReplaceHole ==
    /\ made_by # None
    /\ heap[obtained].kind # "Hole"
    /\ \E i \in DOMAIN heap[obtained].items :
        LET options == Alloc(heap, ListObject(<<0>>))
            hole == Alloc(options.heap,
                          HoleObject(0, options.ref, heap[heap[obtained].items[i]].option_labels))
        IN  Mutated([hole.heap EXCEPT ![obtained].items[i] = hole.ref])

\* G.properties.append(p)
MutatePropertiesAppend ==
    /\ made_by # None
    /\ heap[obtained].properties # None
    /\ Mutated([heap EXCEPT ![The(heap[obtained].properties)].items = Append(@, "p2")])

\* G.properties.pop(0)
MutatePropertiesPop ==
    /\ made_by # None
    /\ heap[obtained].properties # None
    /\ heap[The(heap[obtained].properties)].items # <<>>
    /\ Mutated([heap EXCEPT ![The(heap[obtained].properties)].items = Tail(@)])

\* suboptions.append(x) on a list of the client that was passed to the method
MutateArgument ==
    \E passed \in arguments \ Parts(heap, source), x \in 0..2 :
        Mutated([heap EXCEPT ![passed].items = Append(@, x)])

NextHeap ==
    \/ HeapCopy
    \/ HeapHoleAssumeSuboptions
    \/ HeapAssumeHoleSuboptions
    \/ HeapAssumeSuboptions
    \/ HeapPickAny
    \/ HeapPickAssignment
    \/ MutateOptionsAppend
    \/ MutateOptionsPop
    \/ MutateOptionsAssign
    \/ MutateReplaceHole
    \/ MutatePropertiesAppend
    \/ MutatePropertiesPop
    \/ MutateArgument

SpecHeap == InitHeap /\ [][NextHeap]_vars

----------------------------------------------------------------------------
(* sketch/holes.py: class CombinationColoring.  The two dictionaries are   *)
(* functions: coloring from hole combinations to colors, reverse_coloring  *)
(* from colors to hole combinations.  A hole combination is a tuple with   *)
(* an option or None for every hole.                                       *)

\* colors handed out in one behaviour
MaxColors == 3

\* the hole combinations of two holes with two options each
HoleCombinations == [1..2 -> {None, Some(0), Some(1)}]

\* CombinationColoring.colors
colors(self) == Cardinality(DOMAIN self.coloring)

\* dict.get(key, default)
dict_get(dict, key, default) == IF key \in DOMAIN dict THEN dict[key] ELSE default

\* dict[key] = value
dict_set(dict, key, value) == [k \in DOMAIN dict \cup {key} |-> IF k = key THEN value ELSE dict[k]]

\* get_or_make_color giving every new combination the color 1
get_or_make_color_one(self, hole_assignment) ==
    LET color == dict_get(self.coloring, hole_assignment, 1)
    IN  IF color = 1
        THEN [coloring |-> dict_set(self.coloring, hole_assignment, color),
              reverse_coloring |-> dict_set(self.reverse_coloring, color, hole_assignment),
              color |-> color]
        ELSE [coloring |-> self.coloring, reverse_coloring |-> self.reverse_coloring,
              color |-> color]

\* get_or_make_color counting the colors from 0
get_or_make_color_from_zero(self, hole_assignment) ==
    LET new_color == colors(self)
        color == dict_get(self.coloring, hole_assignment, new_color)
    IN  IF color = new_color
        THEN [coloring |-> dict_set(self.coloring, hole_assignment, color),
              reverse_coloring |-> dict_set(self.reverse_coloring, color, hole_assignment),
              color |-> color]
        ELSE [coloring |-> self.coloring, reverse_coloring |-> self.reverse_coloring,
              color |-> color]

\* CombinationColoring.get_or_make_color: the dictionaries afterwards and the
\* color returned
get_or_make_color(self, hole_assignment) ==
    LET new_color == colors(self) + 1
        color == dict_get(self.coloring, hole_assignment, new_color)
    IN  IF color = new_color
        THEN [coloring |-> dict_set(self.coloring, hole_assignment, color),
              reverse_coloring |-> dict_set(self.reverse_coloring, color, hole_assignment),
              color |-> color]
        ELSE [coloring |-> self.coloring, reverse_coloring |-> self.reverse_coloring,
              color |-> color]

\* the design subspaces a client passes to subcolors: two holes, each with
\* both options or narrowed to option 1
ColoringSubspaces ==
    {Holes([i \in 1..2 |-> Hole(i, options[i], <<"a", "b">>)]) :
        options \in [1..2 -> {<<1>>, <<0, 1>>}]}

\* the inner loop of subcolors: the combination has, for every hole of the
\* subspace, None or an option of the hole
contained(combination, subspace) ==
    \A hole_index \in DOMAIN subspace.holes :
        \/ combination[hole_index] = None
        \/ The(combination[hole_index]) \in Range(subspace.holes[hole_index].options)

\* subcolors that takes None for an option the hole does not have
subcolors_strict(self, subspace) ==
    {self.coloring[combination] :
        combination \in {c \in DOMAIN self.coloring :
            \A hole_index \in DOMAIN subspace.holes :
                /\ c[hole_index] # None
                /\ The(c[hole_index]) \in Range(subspace.holes[hole_index].options)}}

\* CombinationColoring.subcolors
subcolors(self, subspace) ==
    {self.coloring[combination] :
        combination \in {c \in DOMAIN self.coloring : contained(c, subspace)}}

\* CombinationColoring.__init__
InitColoring ==
    /\ coloring = <<>>
    /\ reverse_coloring = <<>>
    /\ last_color = None
    /\ last_subcolors = None
    /\ design_space = <<>>
    /\ family = <<>>
    /\ origin = <<>>
    /\ refines = 0
    /\ solver = None
    /\ assignment = None
    /\ picked = FALSE
    /\ promised = {}
    /\ NoSynthesis
    /\ NoHeap
    /\ NoStage
    /\ NoStorm
    /\ NoBuild
    /\ NoCheck
    /\ NoQueue
    /\ NoPomdp
    /\ NoDriver
    /\ NoSim

\* a client calls get_or_make_color(hole_assignment)
GetOrMakeColor ==
    \E hole_assignment \in HoleCombinations :
        /\ hole_assignment \in DOMAIN coloring \/ Cardinality(DOMAIN coloring) < MaxColors
        /\ LET called == get_or_make_color([coloring |-> coloring,
                                            reverse_coloring |-> reverse_coloring],
                                           hole_assignment)
           IN  /\ coloring' = called.coloring
               /\ reverse_coloring' = called.reverse_coloring
               /\ last_color' = Some([hole_assignment |-> hole_assignment,
                                      color |-> called.color])
        /\ UNCHANGED <<last_subcolors, nonColoringVars>>

\* a client calls subcolors(subspace)
Subcolors ==
    /\ \E subspace \in ColoringSubspaces :
        last_subcolors' = Some([subspace |-> subspace,
                                colors |-> subcolors([coloring |-> coloring,
                                                      reverse_coloring |-> reverse_coloring],
                                                     subspace)])
    /\ UNCHANGED <<coloring, reverse_coloring, last_color, nonColoringVars>>

NextColoring == GetOrMakeColor \/ Subcolors

SpecColoring == InitColoring /\ [][NextColoring]_vars

----------------------------------------------------------------------------
(* synthesizers/synthesizer.py: class StageControl, driven by a client     *)
(* that creates the object, may set its attribute models_total, and calls  *)
(* start and step.  Times and pruned fractions are rationals <<n, d>> in   *)
(* lowest terms; the time the stage timer reads is an input of step.       *)

\* calls of start and step in one behaviour
MaxStageCalls == 3

RECURSIVE GCD(_, _)
GCD(a, b) == IF b = 0 THEN a ELSE GCD(b, a % b)

\* n / d
Rat(n, d) == <<n \div GCD(n, d), d \div GCD(n, d)>>

RatAdd(x, y) == Rat(x[1] * y[2] + y[1] * x[2], x[2] * y[2])

RatMul(x, y) == Rat(x[1] * y[1], x[2] * y[2])

RatDiv(x, y) == Rat(x[1] * y[2], x[2] * y[1])

RatLess(x, y) == x[1] * y[2] < y[1] * x[2]

Zero == Rat(0, 1)

One == Rat(1, 1)

\* the pruned counts and stage times (in seconds) a client passes: those of
\* scenario S6 and zero
ModelsPruned == {0, 10, 100}

StageTimes == {0, 1}

\* StageControl.__init__; models_total is no attribute of the object unless
\* the client sets it
StageControl(models_total) ==
    [stage_timer |-> "new",
     stage_time_cegar |-> Zero, stage_pruned_cegar |-> Zero,
     stage_time_cegis |-> Zero, stage_pruned_cegis |-> Zero,
     cegis_allocated_time_factor |-> One,
     stage_cegar |-> TRUE,
     cegis_allocated_time |-> Zero,
     models_total |-> models_total]

\* StageControl.start
start(self, request_stage_cegar) ==
    [self EXCEPT !.stage_cegar = request_stage_cegar, !.stage_timer = "running"]

\* cegis_dominance = 1 / cegar_dominance
cegis_dominance(cegar_dominance) == RatDiv(One, cegar_dominance)

Raised(self, error) == [self |-> self, returned |-> None, raised |-> Some(error)]

\* the end of a CEGIS stage in StageControl.step
step_cegis_over(self, current_time) ==
    LET timed == [self EXCEPT !.stage_time_cegis = RatAdd(@, current_time)]
    IN  IF timed.stage_time_cegar = Zero \/ timed.stage_time_cegis = Zero
        THEN Raised(timed, "ZeroDivisionError")
        ELSE LET success_rate_cegar == RatDiv(timed.stage_pruned_cegar, timed.stage_time_cegar)
                 success_rate_cegis == RatDiv(timed.stage_pruned_cegis, timed.stage_time_cegis)
                 cegar_dominance ==
                    IF timed.stage_pruned_cegar = Zero \/ timed.stage_pruned_cegis = Zero
                    THEN One
                    ELSE RatDiv(success_rate_cegar, success_rate_cegis)
             IN  [self |-> start([timed EXCEPT !.cegis_allocated_time_factor =
                                                    cegis_dominance(cegar_dominance)], TRUE),
                  returned |-> Some(TRUE), raised |-> None]

\* a step that stops the stage timer before it looks at the allocation
step_stop_first(self, models_pruned, elapsed) ==
    IF self.models_total = None THEN Raised(self, "AttributeError")
    ELSE LET fraction == Rat(models_pruned, The(self.models_total))
             credited == IF self.stage_cegar
                         THEN [self EXCEPT !.stage_pruned_cegar = RatAdd(@, fraction)]
                         ELSE [self EXCEPT !.stage_pruned_cegis = RatAdd(@, fraction)]
             stopped == [credited EXCEPT !.stage_timer = "stopped"]
             current_time == Rat(elapsed, 1)
         IN  IF ~self.stage_cegar /\ RatLess(current_time, self.cegis_allocated_time)
             THEN [self |-> stopped, returned |-> Some(FALSE), raised |-> None]
             ELSE IF self.stage_cegar
             THEN Raised([stopped EXCEPT !.stage_time_cegar = RatAdd(@, current_time),
                            !.cegis_allocated_time =
                                RatMul(current_time, self.cegis_allocated_time_factor)],
                         "AttributeError")
             ELSE step_cegis_over(stopped, current_time)

\* StageControl.step(models_pruned) when the stage timer reads `elapsed`: the
\* object afterwards, and the value returned or the exception raised
step(self, models_pruned, elapsed) ==
    IF self.models_total = None
    THEN Raised(self, "AttributeError")
    ELSE LET fraction == Rat(models_pruned, The(self.models_total))
             credited ==
                IF self.stage_cegar
                THEN [self EXCEPT !.stage_pruned_cegar = RatAdd(@, fraction)]
                ELSE [self EXCEPT !.stage_pruned_cegis = RatAdd(@, fraction)]
             stopped == [credited EXCEPT !.stage_timer = "stopped"]
             current_time == Rat(elapsed, 1)
         IN  IF ~self.stage_cegar /\ RatLess(current_time, self.cegis_allocated_time)
             THEN [self |-> credited, returned |-> Some(FALSE), raised |-> None]
             ELSE IF self.stage_cegar
             THEN \* self.stage_start does not exist
                  Raised([stopped EXCEPT
                            !.stage_time_cegar = RatAdd(@, current_time),
                            !.cegis_allocated_time =
                                RatMul(current_time, self.cegis_allocated_time_factor)],
                         "AttributeError")
             ELSE step_cegis_over(stopped, current_time)

InitStage ==
    /\ \E models_total \in {None, Some(100)} : stage_control = StageControl(models_total)
    /\ stage_call = None
    /\ stage_calls = 0
    /\ design_space = <<>>
    /\ family = <<>>
    /\ origin = <<>>
    /\ refines = 0
    /\ solver = None
    /\ assignment = None
    /\ picked = FALSE
    /\ promised = {}
    /\ NoSynthesis
    /\ NoHeap
    /\ NoColoring
    /\ NoStorm
    /\ NoBuild
    /\ NoCheck
    /\ NoQueue
    /\ NoPomdp
    /\ NoDriver
    /\ NoSim

\* the client calls start(request_stage_cegar)
StageStart ==
    /\ stage_calls < MaxStageCalls
    /\ \E request_stage_cegar \in BOOLEAN :
        /\ stage_control' = start(stage_control, request_stage_cegar)
        /\ stage_call' = Some([method |-> "start", models_pruned |-> 0, elapsed |-> 0,
                               returned |-> None, raised |-> None])
    /\ stage_calls' = stage_calls + 1
    /\ UNCHANGED nonStageVars

\* the client calls step(models_pruned)
StageStep ==
    /\ stage_calls < MaxStageCalls
    /\ \E models_pruned \in ModelsPruned, elapsed \in StageTimes :
        LET called == step(stage_control, models_pruned, elapsed)
        IN  /\ stage_control' = called.self
            /\ stage_call' = Some([method |-> "step", models_pruned |-> models_pruned,
                                   elapsed |-> elapsed, returned |-> called.returned,
                                   raised |-> called.raised])
    /\ stage_calls' = stage_calls + 1
    /\ UNCHANGED nonStageVars

NextStage == StageStart \/ StageStep

SpecStage == InitStage /\ [][NextStage]_vars

----------------------------------------------------------------------------
(* quotient/storm_pomdp_control.py: class StormPOMDPControl.  The quotient *)
(* and the family are objects of the POMDP front-end: the quotient tells   *)
(* which action holes and memory holes belong to each observation, the     *)
(* family is a list of holes with copy() and, on a hole,                   *)
(* assume_options(options), which replaces the options of the hole.        *)
(* Observations, actions and memory updates are numbered from 0 as in the  *)
(* source; holes are positions 1..n.  A dictionary is a function.          *)

\* the quotient of a POMDP with three observations: observation 0 owns the
\* action holes 1 and 2 and the memory hole 4, observation 1 owns the action
\* hole 3, observation 2 has one action, no action hole, and the memory hole 5
Quotient ==
    [observations |-> 3,
     actions_at_observation |-> <<2, 2, 1>>,
     observation_action_holes |-> <<<<1, 2>>, <<3>>, <<>>>>,
     observation_memory_holes |-> <<<<4>>, <<>>, <<5>>>>,
     max_successor_memory_size |-> <<2, 1, 1>>]

\* the family of all holes of the quotient
QuotientFamily ==
    Holes([i \in 1..5 |-> Hole(i, <<0, 1>>, <<"a", "b">>)])

\* the families a caller passes: the full one and those with one hole narrowed
StormFamilies ==
    {QuotientFamily} \cup
    {assume_hole_suboptions(QuotientFamily, i, <<1>>) : i \in {1, 3, 4}}

\* the action dictionaries: for each observation absent, or a list of actions
ActionLists == {<<0>>, <<0, 1>>}

ResultDicts ==
    UNION {[keys -> ActionLists] : keys \in SUBSET {0, 1}}

\* range(n)
range(n) == [i \in 1..n |-> i - 1]

\* hole.assume_options(options) on a hole of the family
assume_options(fam, hole, options) == [fam EXCEPT !.holes[hole].options = options]

\* the dictionary get_main_restricted_family and get_subfamilies_restrictions use
selected_result_dict(self, use_cutoffs) ==
    IF ~self.is_storm_better THEN self.result_dict_paynt
    ELSE IF use_cutoffs THEN self.result_dict
    ELSE self.result_dict_no_cutoffs

\* "Apply action restrictions": each action hole of the observation gets the
\* selected actions that are among its options, or [0] when there is none
RECURSIVE apply_action_restrictions(_, _, _)
apply_action_restrictions(restricted_family, act_obs_holes, actions) ==
    IF act_obs_holes = <<>> THEN restricted_family
    ELSE LET hole == Head(act_obs_holes)
             options == SelectSeq(actions,
                            LAMBDA action : action \in Range(restricted_family.holes[hole].options))
         IN  apply_action_restrictions(
                assume_options(restricted_family, hole,
                               IF Len(options) = 0 THEN <<0>> ELSE options),
                Tail(act_obs_holes), actions)

\* "Apply memory restrictions": each memory hole of the observation gets all updates
RECURSIVE apply_memory_restrictions(_, _, _)
apply_memory_restrictions(restricted_family, mem_obs_holes, all_updates) ==
    IF mem_obs_holes = <<>> THEN restricted_family
    ELSE apply_memory_restrictions(
            assume_options(restricted_family, Head(mem_obs_holes), all_updates),
            Tail(mem_obs_holes), all_updates)

\* the action restriction of an absent observation left out
selected_actions_all(result_dict, obs, num_actions) ==
    IF obs \notin DOMAIN result_dict THEN range(num_actions) ELSE result_dict[obs]

\* "Action restriction": [0] for an observation absent from the dictionary
selected_actions(result_dict, obs, num_actions) ==
    IF obs \notin DOMAIN result_dict THEN <<0>> ELSE result_dict[obs]

\* the body of the loop over the observations, from observation obs on
RECURSIVE restrict_observations(_, _, _, _)
restrict_observations(restricted_family, quotient, result_dict, obs) ==
    IF obs >= quotient.observations THEN restricted_family
    ELSE LET num_actions == quotient.actions_at_observation[obs + 1]
             num_updates == quotient.max_successor_memory_size[obs + 1]
             act_obs_holes == quotient.observation_action_holes[obs + 1]
             mem_obs_holes == quotient.observation_memory_holes[obs + 1]
         IN  IF Len(act_obs_holes) = 0
             THEN restrict_observations(restricted_family, quotient, result_dict, obs + 1)
             ELSE restrict_observations(
                    apply_memory_restrictions(
                        apply_action_restrictions(restricted_family, act_obs_holes,
                            selected_actions(result_dict, obs, num_actions)),
                        mem_obs_holes, range(num_updates)),
                    quotient, result_dict, obs + 1)

\* get_main_restricted_family: the family returned, whether it is the object
\* passed in, and the family passed in afterwards
get_main_restricted_family(self, fam, quotient, use_cutoffs) ==
    LET result_dict == selected_result_dict(self, use_cutoffs)
    IN  IF DOMAIN result_dict = {}
        THEN [returned |-> fam, same_object |-> TRUE, family |-> fam]
        ELSE [returned |-> restrict_observations(copy(fam), quotient, result_dict, 0),
              same_object |-> FALSE, family |-> fam]

\* the position of the last observation whose action holes hold the hole
obs_of_hole(quotient, hole) ==
    CHOOSE obs \in 0..(quotient.observations - 1) :
        /\ hole \in Range(quotient.observation_action_holes[obs + 1])
        /\ \A later \in (obs + 1)..(quotient.observations - 1) :
                hole \notin Range(quotient.observation_action_holes[later + 1])

\* the loop over restricted_holes_list
RECURSIVE restriction_records(_, _, _)
restriction_records(quotient, result_dict, restricted_holes_list) ==
    IF restricted_holes_list = <<>> THEN <<>>
    ELSE LET hole == Head(restricted_holes_list)
             obs == obs_of_hole(quotient, hole)
             others == restriction_records(quotient, result_dict, Tail(restricted_holes_list))
         IN  IF Len(result_dict[obs]) = quotient.actions_at_observation[obs + 1]
             THEN others
             ELSE <<[hole |-> hole, restriction |-> result_dict[obs]]>> \o others

\* the action holes of the observations in the order of the dictionary's keys
RECURSIVE restricted_holes(_, _)
restricted_holes(quotient, keys) ==
    IF keys = <<>> THEN <<>>
    ELSE quotient.observation_action_holes[Head(keys) + 1] \o restricted_holes(quotient, Tail(keys))

\* result_dict.keys(): parse_storm_result and parse_paynt_result make the
\* dictionary with the observations in ascending order and delete from it
keys(quotient, dict) ==
    SelectSeq(range(quotient.observations), LAMBDA obs : obs \in DOMAIN dict)

\* get_subfamilies_restrictions
get_subfamilies_restrictions(self, quotient, use_cutoffs) ==
    LET result_dict == selected_result_dict(self, use_cutoffs)
    IN  IF DOMAIN result_dict = {} THEN <<>>
        ELSE restriction_records(quotient, result_dict,
                                 restricted_holes(quotient, keys(quotient, result_dict)))

\* the first loop of get_subfamilies: records j < i as they are, record i with
\* the options of the family that are not in its restriction
prefix_flip(restrictions, fam, i) ==
    [j \in 1..i |->
        IF i # j THEN restrictions[j]
        ELSE [hole |-> restrictions[j].hole,
              restriction |-> SelectSeq(fam.holes[restrictions[j].hole].options,
                                LAMBDA action : action \notin Range(restrictions[j].restriction))]]

\* the record appended for every action hole in the second loop: the options
\* of the family for a hole without a record, the empty list for the others
RECURSIVE fill_records(_, _, _, _, _)
fill_records(subfamily, holes, fam, act_obs_holes, num_actions) ==
    IF act_obs_holes = <<>> THEN subfamily
    ELSE LET hole == Head(act_obs_holes)
             restriction ==
                IF hole \notin holes
                THEN SelectSeq(range(num_actions),
                               LAMBDA action : action \in Range(fam.holes[hole].options))
                ELSE <<>>
         IN  fill_records(Append(subfamily, [hole |-> hole, restriction |-> restriction]),
                          holes, fam, Tail(act_obs_holes), num_actions)

\* the second loop of get_subfamilies for one subfamily, from observation obs on
RECURSIVE fill_observations(_, _, _, _, _)
fill_observations(subfamily, holes, fam, quotient, obs) ==
    IF obs >= quotient.observations THEN subfamily
    ELSE fill_observations(
            fill_records(subfamily, holes, fam, quotient.observation_action_holes[obs + 1],
                         quotient.actions_at_observation[obs + 1]),
            holes, fam, quotient, obs + 1)

\* get_subfamilies
get_subfamilies(quotient, restrictions, fam) ==
    [i \in 1..Len(restrictions) |->
        LET subfamily == prefix_flip(restrictions, fam, i)
            holes == {subfamily[j].hole : j \in DOMAIN subfamily}
        IN  fill_observations(subfamily, holes, fam, quotient, 0)]

\* update_data with the tie counted for the oracle
update_data_tie_for_storm(self, paynt_value, minimizing, paynt_assignment) ==
    IF paynt_value = None \/ self.storm_bounds = None THEN self
    ELSE [self EXCEPT
            !.is_storm_better =
                IF minimizing THEN ~(The(paynt_value) < The(self.storm_bounds))
                ELSE ~(The(paynt_value) > The(self.storm_bounds)),
            !.latest_paynt_result = IF paynt_assignment # None THEN paynt_assignment ELSE @,
            !.paynt_export = IF paynt_assignment # None THEN paynt_assignment ELSE @]

\* update_data; the policy exported for an assignment is named by the assignment
update_data(self, paynt_value, minimizing, paynt_assignment) ==
    IF paynt_value = None \/ self.storm_bounds = None THEN self
    ELSE [self EXCEPT
            !.is_storm_better =
                IF minimizing THEN ~(The(paynt_value) <= The(self.storm_bounds))
                ELSE ~(The(paynt_value) >= The(self.storm_bounds)),
            !.latest_paynt_result = IF paynt_assignment # None THEN paynt_assignment ELSE @,
            !.paynt_export = IF paynt_assignment # None THEN paynt_assignment ELSE @]

\* the dictionary with the observations of empty lists deleted
delete_empty(result) ==
    [obs \in {o \in DOMAIN result : Len(result[o]) # 0} |-> result[obs]]

\* the loop of parse_paynt_result over the action holes of an observation
RECURSIVE first_options(_, _, _)
first_options(latest_paynt_result, act_obs_holes, result) ==
    IF act_obs_holes = <<>> THEN result
    ELSE LET option == latest_paynt_result.holes[Head(act_obs_holes)].options[1]
         IN  first_options(latest_paynt_result, Tail(act_obs_holes),
                           IF option \notin Range(result) THEN Append(result, option)
                           ELSE result)

\* parse_paynt_result; the observation of an action hole is read from its name
parse_paynt_result(self, quotient) ==
    [self EXCEPT !.result_dict_paynt =
        delete_empty([obs \in 0..(quotient.observations - 1) |->
            first_options(The(self.latest_paynt_result),
                          quotient.observation_action_holes[obs + 1], <<>>)])]

\* the values of the oracle's bound and of the synthesizer's results
StormValues == 0..MaxValue

\* the assignments the synthesizer reports
PayntAssignments ==
    {Holes_assume_suboptions(QuotientFamily, [i \in 1..5 |-> <<a[i]>>]) :
        a \in {<<0, 1, 1, 0, 0>>, <<1, 0, 0, 1, 1>>}}

\* the object after construction: the class attributes
StormPOMDPControl ==
    [latest_paynt_result |-> None,
     result_dict |-> <<>>,
     result_dict_no_cutoffs |-> <<>>,
     result_dict_paynt |-> <<>>,
     storm_bounds |-> None,
     is_storm_better |-> TRUE,
     paynt_export |-> <<>>]

StormCall(method) ==
    [method |-> method, family |-> <<>>, family_after |-> <<>>, use_cutoffs |-> FALSE,
     returned |-> <<>>, same_object |-> FALSE, restrictions |-> <<>>,
     paynt_value |-> None, minimizing |-> FALSE, assignment |-> None]

InitStorm ==
    /\ storm_control = StormPOMDPControl
    /\ storm_call = None
    /\ design_space = <<>>
    /\ family = <<>>
    /\ origin = <<>>
    /\ refines = 0
    /\ solver = None
    /\ assignment = None
    /\ picked = FALSE
    /\ promised = {}
    /\ NoSynthesis
    /\ NoHeap
    /\ NoColoring
    /\ NoStage
    /\ NoBuild
    /\ NoCheck
    /\ NoQueue
    /\ NoPomdp
    /\ NoDriver
    /\ NoSim

\* parse_storm_result: the oracle's scheduler gives, for some observations, the
\* actions it takes; the actions of the cut-off schedulers are left out of
\* result_no_cutoffs; the bound is the oracle's
ParseStormResult ==
    /\ \E result \in ResultDicts, result_no_cutoffs \in ResultDicts, bound \in StormValues :
        /\ DOMAIN result_no_cutoffs \subseteq DOMAIN result
        /\ \A obs \in DOMAIN result_no_cutoffs :
                result_no_cutoffs[obs] \in SubLists(result[obs])
        /\ storm_control' = [storm_control EXCEPT !.storm_bounds = Some(bound),
                                                  !.result_dict = result,
                                                  !.result_dict_no_cutoffs = result_no_cutoffs]
    /\ storm_call' = Some(StormCall("parse_storm_result"))
    /\ UNCHANGED nonStormVars

\* parse_paynt_result on the latest result of the synthesizer
ParsePayntResult ==
    /\ storm_control.latest_paynt_result # None
    /\ storm_control' = parse_paynt_result(storm_control, Quotient)
    /\ storm_call' = Some(StormCall("parse_paynt_result"))
    /\ UNCHANGED nonStormVars

\* the synthesizer asks for the main family
GetMainRestrictedFamily ==
    /\ \E fam \in StormFamilies, use_cutoffs \in BOOLEAN :
        LET called == get_main_restricted_family(storm_control, fam, Quotient, use_cutoffs)
        IN  storm_call' = Some([StormCall("get_main_restricted_family") EXCEPT
                                    !.family = fam,
                                    !.family_after = called.family,
                                    !.use_cutoffs = use_cutoffs,
                                    !.returned = called.returned,
                                    !.same_object = called.same_object])
    /\ UNCHANGED storm_control
    /\ UNCHANGED nonStormVars

\* the synthesizer asks for the restrictions and expands them to subfamilies
GetSubfamilies ==
    /\ \E fam \in StormFamilies, use_cutoffs \in BOOLEAN :
        LET restrictions == get_subfamilies_restrictions(storm_control, Quotient, use_cutoffs)
        IN  storm_call' = Some([StormCall("get_subfamilies") EXCEPT
                                    !.family = fam,
                                    !.family_after = fam,
                                    !.use_cutoffs = use_cutoffs,
                                    !.restrictions = restrictions,
                                    !.returned = get_subfamilies(Quotient, restrictions, fam)])
    /\ UNCHANGED storm_control
    /\ UNCHANGED nonStormVars

\* the synthesizer reports its value
UpdateData ==
    /\ \E paynt_value \in {None} \cup {Some(v) : v \in StormValues},
          minimizing \in BOOLEAN,
          result \in {None} \cup {Some(a) : a \in PayntAssignments} :
        /\ storm_control' = update_data(storm_control, paynt_value, minimizing, result)
        /\ storm_call' = Some([StormCall("update_data") EXCEPT
                                    !.paynt_value = paynt_value,
                                    !.minimizing = minimizing,
                                    !.assignment = result])
    /\ UNCHANGED nonStormVars

NextStorm ==
    \/ ParseStormResult
    \/ ParsePayntResult
    \/ GetMainRestrictedFamily
    \/ GetSubfamilies
    \/ UpdateData

SpecStorm == InitStorm /\ [][NextStorm]_vars

----------------------------------------------------------------------------
(* sketch/holes.py: the constructors of Hole and DesignSpace applied to    *)
(* what a front-end may pass, well-formed or not.                          *)

\* length of the option lists passed to the constructor of Hole
MaxOptions == 2

\* the labels of the options of every hole built
BuildLabels == <<"a", "b">>

\* option lists: empty ones, repeated ids and ids without a label included
BuildOptions == UNION {[1..n -> 0..Len(BuildLabels)] : n \in 0..MaxOptions}

BuildNames == {"h0", "h1"}

\* the holes a front-end may build
BuildHoles ==
    {Hole(name, options, BuildLabels) : name \in BuildNames, options \in BuildOptions}

\* a constructor returned `object`; nothing in it raises
Constructed(class, object) ==
    Some([class |-> class, raised |-> None, object |-> object])

InitBuild ==
    /\ constructed = None
    /\ design_space = <<>>
    /\ family = <<>>
    /\ origin = <<>>
    /\ refines = 0
    /\ solver = None
    /\ assignment = None
    /\ picked = FALSE
    /\ promised = {}
    /\ NoSynthesis
    /\ NoHeap
    /\ NoColoring
    /\ NoStage
    /\ NoStorm
    /\ NoCheck
    /\ NoQueue
    /\ NoPomdp
    /\ NoDriver
    /\ NoSim

\* Hole(name, options, option_labels); a behaviour is one constructor call
BuildHole ==
    /\ constructed = None
    /\ \E name \in BuildNames, options \in BuildOptions :
        constructed' = Constructed("Hole", Hole(name, options, BuildLabels))
    /\ UNCHANGED nonBuildVars

\* DesignSpace(holes, properties), with at most one hole per name and one more
BuildDesignSpace ==
    /\ constructed = None
    /\ \E holes \in UNION {[1..n -> BuildHoles] : n \in 0..Cardinality(BuildNames)},
          properties \in {None, Some(<<>>)} :
        constructed' = Constructed("DesignSpace", DesignSpace(holes, properties))
    /\ UNCHANGED nonBuildVars

NextBuild == BuildHole \/ BuildDesignSpace

SpecBuild == InitBuild /\ [][NextBuild]_vars

----------------------------------------------------------------------------
(* quotient/storm_pomdp_control.py: the result dictionaries as Python      *)
(* objects.  A dictionary holds, for each key, the address of a list; an   *)
(* attribute of the control object holds the address of a dictionary.  The *)
(* worker that runs get_storm_result puts (self.result_dict,               *)
(* self.storm_bounds) on self.s_queue; the synthesis loop takes it.        *)

\* calls of get_storm_result explored in one behaviour
MaxStormRuns == 2

DictObject(items) == [kind |-> "dict", items |-> items]

ActionListObject(items) == [kind |-> "list", items |-> items]

\* the value of the dictionary at address d
dict_value(h, d) == [obs \in DOMAIN h[d].items |-> h[h[d].items[obs]].items]

\* {obs: [...] for the keys}: new lists, from observation obs on, for a new dictionary
RECURSIVE new_lists(_, _, _, _)
new_lists(h, value, obs, items) ==
    IF obs >= Quotient.observations THEN [heap |-> h, items |-> items]
    ELSE IF obs \notin DOMAIN value THEN new_lists(h, value, obs + 1, items)
    ELSE LET made == Alloc(h, ActionListObject(value[obs]))
         IN  new_lists(made.heap, value, obs + 1,
                       [o \in DOMAIN items \cup {obs} |->
                            IF o = obs THEN made.ref ELSE items[o]])

\* a new dictionary of new lists with the given value
new_dict(h, value) ==
    LET lists == new_lists(h, value, 0, <<>>)
    IN  Alloc(lists.heap, DictObject(lists.items))

\* self.result_dict[obs].append(action) for the actions of the list at
\* address `from` that the list at address `into` lacks
RECURSIVE append_missing(_, _, _, _)
append_missing(h, into, from, index) ==
    IF index > Len(h[from].items) THEN h
    ELSE LET action == h[from].items[index]
         IN  append_missing(
                IF action \notin Range(h[into].items)
                THEN [h EXCEPT ![into].items = Append(@, action)]
                ELSE h,
                into, from, index + 1)

\* join_results working on a copy of result_dict, which it installs
join_results_copy(h, self) ==
    LET made == new_dict(h, dict_value(h, self.result_dict))
    IN  [heap |-> made.heap, self |-> [self EXCEPT !.result_dict = made.ref]]

\* the loop of join_results, from observation obs on
RECURSIVE join_observations(_, _, _)
join_observations(h, self, obs) ==
    IF obs >= Quotient.observations THEN h
    ELSE LET result_dict == h[self.result_dict].items
             result_dict_paynt == h[self.result_dict_paynt].items
         IN  IF obs \in DOMAIN result_dict
             THEN IF obs \in DOMAIN result_dict_paynt
                  THEN join_observations(
                            append_missing(h, result_dict[obs], result_dict_paynt[obs], 1),
                            self, obs + 1)
                  ELSE join_observations(h, self, obs + 1)
             ELSE IF obs \in DOMAIN result_dict_paynt
                  THEN join_observations(
                            [h EXCEPT ![self.result_dict].items =
                                [o \in DOMAIN result_dict \cup {obs} |->
                                    IF o = obs THEN result_dict_paynt[obs] ELSE result_dict[o]]],
                            self, obs + 1)
                  ELSE join_observations(h, self, obs + 1)

\* join_results
join_results(h, self) ==
    [heap |-> join_observations(h, self, 0), self |-> self]

\* parse_results: new dictionaries for the result of the oracle, a new one for
\* the latest result of the synthesizer or an empty one
parse_results(h, self, result, result_no_cutoffs, bound) ==
    LET first == new_dict(h, result)
        second == new_dict(first.heap, result_no_cutoffs)
        third == new_dict(second.heap,
                    IF self.latest_paynt_result # None
                    THEN parse_paynt_result(self, Quotient).result_dict_paynt
                    ELSE <<>>)
    IN  [heap |-> third.heap,
         self |-> [self EXCEPT !.result_dict = first.ref,
                               !.result_dict_no_cutoffs = second.ref,
                               !.result_dict_paynt = third.ref,
                               !.storm_bounds = Some(bound)]]

\* the oracle's scheduler takes action 0 at the observations it reaches
OracleResults ==
    {result \in ResultDicts :
        DOMAIN result # {} /\ \A obs \in DOMAIN result : result[obs] = <<0>>}

\* the tuple put on the queue; `put` keeps the value the dictionary had then
QueueItem(h, self) ==
    [result_dict |-> self.result_dict, storm_bounds |-> self.storm_bounds,
     put |-> dict_value(h, self.result_dict)]

\* the class attributes: the three dictionaries are empty dictionary objects
InitQueue ==
    /\ oracle_heap = <<DictObject(<<>>), DictObject(<<>>), DictObject(<<>>)>>
    /\ oracle_self = [result_dict |-> 1, result_dict_no_cutoffs |-> 2,
                      result_dict_paynt |-> 3, storm_bounds |-> None,
                      is_storm_better |-> TRUE, latest_paynt_result |-> None,
                      paynt_export |-> <<>>, runs |-> 0]
    /\ s_queue \in {None, Some(<<>>)}
    /\ received = <<>>
    /\ design_space = <<>>
    /\ family = <<>>
    /\ origin = <<>>
    /\ refines = 0
    /\ solver = None
    /\ assignment = None
    /\ picked = FALSE
    /\ promised = {}
    /\ NoSynthesis
    /\ NoHeap
    /\ NoColoring
    /\ NoStage
    /\ NoStorm
    /\ NoBuild
    /\ NoCheck
    /\ NoPomdp
    /\ NoDriver
    /\ NoSim

\* get_storm_result: the oracle runs, its result is parsed and put on the queue
GetStormResult ==
    /\ oracle_self.runs < MaxStormRuns
    /\ \E result \in OracleResults, cutoffs \in BOOLEAN, bound \in StormValues :
        LET parsed == parse_results(oracle_heap, oracle_self, result,
                                    IF cutoffs THEN <<>> ELSE result, bound)
        IN  /\ oracle_heap' = parsed.heap
            /\ oracle_self' = [parsed.self EXCEPT !.runs = @ + 1]
            /\ s_queue' = IF s_queue # None
                          THEN Some(Append(The(s_queue), QueueItem(parsed.heap, parsed.self)))
                          ELSE s_queue
    /\ UNCHANGED received
    /\ UNCHANGED nonQueueVars

\* join_results
JoinResults ==
    /\ LET joined == join_results(oracle_heap, oracle_self)
       IN  /\ oracle_heap' = joined.heap
           /\ oracle_self' = joined.self
    /\ UNCHANGED <<s_queue, received>>
    /\ UNCHANGED nonQueueVars

\* update_data with the value and the assignment the synthesizer found
QueueUpdateData ==
    /\ \E paynt_value \in {Some(v) : v \in StormValues},
          result \in {Some(a) : a \in PayntAssignments} :
        oracle_self' = update_data(oracle_self, paynt_value, TRUE, result)
    /\ UNCHANGED <<oracle_heap, s_queue, received>>
    /\ UNCHANGED nonQueueVars

\* the synthesis loop takes a tuple from the queue
QueueGet ==
    /\ s_queue # None
    /\ The(s_queue) # <<>>
    /\ received' = Append(received, Head(The(s_queue)))
    /\ s_queue' = Some(Tail(The(s_queue)))
    /\ UNCHANGED <<oracle_heap, oracle_self>>
    /\ UNCHANGED nonQueueVars

NextQueue == GetStormResult \/ JoinResults \/ QueueUpdateData \/ QueueGet

SpecQueue == InitQueue /\ [][NextQueue]_vars

----------------------------------------------------------------------------
(* synthesizers/synthesizer.py: class SynthesizerPOMDP, the two            *)
(* restrictions strategy_2 makes of sketch.design_space.  Observations are *)
(* numbered from 0 as in the source; holes are positions 1..n.             *)

\* quotient_container.pomdp_manager with pomdp.nr_observations: before any
\* memory is injected observation 0 owns the action hole 1, afterwards the
\* action holes 1 and 2; observation 1 owns the action hole 3 and
\* observation 2 has no action hole
PomdpManagers ==
    {[observations |-> 3, action_holes |-> <<<<1>>, <<3>>, <<>>>>],
     [observations |-> 3, action_holes |-> <<<<1, 2>>, <<3>>, <<>>>>]}

\* sketch.design_space of the unfolded quotient: hole 1 with three options,
\* the holes 2, 3 and 4 with two
PomdpDesignSpace ==
    DesignSpace(<<Hole(1, <<0, 1, 2>>, <<"a", "b", "c">>),
                  Hole(2, <<0, 1>>, <<"a", "b">>),
                  Hole(3, <<0, 1>>, <<"a", "b">>),
                  Hole(4, <<0, 1>>, <<"a", "b">>)>>, <<>>)

\* quotient_container.scheduler_selection(mdp, bounds.scheduler): for each
\* hole a non-empty list of the options the scheduler uses
Selections ==
    {selection \in [DOMAIN PomdpDesignSpace.holes -> {<<0>>, <<1>>, <<0, 1>>, <<1, 2>>}] :
        \A hole \in DOMAIN selection :
            Range(selection[hole]) \subseteq Range(PomdpDesignSpace.holes[hole].options)}

\* what a call gave: the value returned, or the exception raised
Outcome(returned, raised) == [returned |-> returned, raised |-> raised]

\* design_space.assume_suboptions(*args): the method a DesignSpace has under
\* this name is Holes.assume_suboptions(self, hole_suboptions)
assume_suboptions_call(self, args) ==
    IF Len(args) = 1
    THEN Outcome(Some(Holes_assume_suboptions(self, args[1])), None)
    ELSE Outcome(None, Some("TypeError"))

\* strategy_2, "associate observations with respective choices": the
\* selection of the first action hole of each observation that has one
observation_choices(pm, selection) ==
    [obs \in {o \in 0..(pm.observations - 1) : pm.action_holes[o + 1] # <<>>} |->
        selection[pm.action_holes[obs + 1][1]]]

\* strategy_2, "map consistent observations to corresponding choices"
consistent_restriction(choices_of) ==
    [obs \in {o \in DOMAIN choices_of : Len(choices_of[o]) = 1} |-> choices_of[obs]]

\* the loop of choose_consistent over restriction.items()
RECURSIVE choose_consistent_items(_, _, _, _)
choose_consistent_items(pm, space, restriction, items) ==
    IF items = <<>> THEN Outcome(Some(space), None)
    ELSE LET obs == Head(items)
             hole_index == pm.action_holes[obs + 1][1]
             called == assume_suboptions_call(space, <<hole_index, restriction[obs]>>)
         IN  IF called.raised # None THEN called
             ELSE choose_consistent_items(pm, The(called.returned), restriction, Tail(items))

\* SynthesizerPOMDP.choose_consistent
choose_consistent(pm, full_space, restriction) ==
    choose_consistent_items(pm, copy(full_space), restriction, keys(pm, restriction))

\* options.remove(option) on a list that holds it
list_remove(options, option) ==
    LET at == CHOOSE i \in DOMAIN options :
                    options[i] = option /\ \A j \in 1..(i - 1) : options[j] # option
    IN  SubSeq(options, 1, at - 1) \o SubSeq(options, at + 1, Len(options))

\* "have multiple holes for this observation": the loop over
\* enumerate(hole_indices), from position `index` on
RECURSIVE break_symmetry_holes(_, _, _, _, _)
break_symmetry_holes(space, full_space, obs_hole_indices, choices, index) ==
    IF index >= Len(obs_hole_indices) THEN Outcome(Some(space), None)
    ELSE LET hole_index == obs_hole_indices[index + 1]
             options == full_space.holes[hole_index].options
         IN  IF index >= Len(choices) THEN Outcome(None, Some("IndexError"))
             ELSE IF choices[index + 1] \notin Range(options)
             THEN Outcome(None, Some("ValueError"))
             ELSE LET called == assume_suboptions_call(space,
                                    <<hole_index, list_remove(options, choices[index + 1])>>)
                  IN  IF called.raised # None THEN called
                      ELSE break_symmetry_holes(The(called.returned), full_space,
                                                obs_hole_indices, choices, index + 1)

\* the loop of choose_consistent_and_break_symmetry over observation_choices.items()
RECURSIVE break_symmetry_items(_, _, _, _, _)
break_symmetry_items(pm, space, full_space, choices_of, items) ==
    IF items = <<>> THEN Outcome(Some(space), None)
    ELSE LET obs == Head(items)
             choices == choices_of[obs]
             obs_hole_indices == pm.action_holes[obs + 1]
             called ==
                IF Len(obs_hole_indices) = 1
                THEN IF Len(choices) = 1
                     THEN assume_suboptions_call(space, <<obs_hole_indices[1], choices>>)
                     ELSE Outcome(Some(space), None)
                ELSE break_symmetry_holes(space, full_space, obs_hole_indices, choices, 0)
         IN  IF called.raised # None THEN called
             ELSE break_symmetry_items(pm, The(called.returned), full_space, choices_of,
                                       Tail(items))

\* SynthesizerPOMDP.choose_consistent_and_break_symmetry
choose_consistent_and_break_symmetry(pm, full_space, choices_of) ==
    break_symmetry_items(pm, copy(full_space), full_space, choices_of, keys(pm, choices_of))

InitPomdp ==
    /\ pomdp_manager \in PomdpManagers
    /\ pomdp_call = None
    /\ design_space = PomdpDesignSpace
    /\ family = <<>>
    /\ origin = <<>>
    /\ refines = 0
    /\ solver = None
    /\ assignment = None
    /\ picked = FALSE
    /\ promised = {}
    /\ NoSynthesis
    /\ NoHeap
    /\ NoColoring
    /\ NoStage
    /\ NoStorm
    /\ NoBuild
    /\ NoCheck
    /\ NoQueue
    /\ NoDriver
    /\ NoSim

\* strategy_2: design_space = self.choose_consistent(self.sketch.design_space,
\* consistent_restriction), for the selection of the scheduler
ChooseConsistent ==
    /\ \E selection \in Selections :
        LET restriction == consistent_restriction(observation_choices(pomdp_manager, selection))
            called == choose_consistent(pomdp_manager, design_space, restriction)
        IN  pomdp_call' = Some([method |-> "choose_consistent", selection |-> selection,
                                argument |-> restriction,
                                returned |-> called.returned, raised |-> called.raised])
    /\ UNCHANGED <<pomdp_manager, nonPomdpVars>>

\* strategy_2: design_space = self.choose_consistent_and_break_symmetry(
\* self.sketch.design_space, observation_choices)
ChooseConsistentAndBreakSymmetry ==
    /\ \E selection \in Selections :
        LET choices_of == observation_choices(pomdp_manager, selection)
            called == choose_consistent_and_break_symmetry(pomdp_manager, design_space,
                                                           choices_of)
        IN  pomdp_call' = Some([method |-> "choose_consistent_and_break_symmetry",
                                selection |-> selection, argument |-> choices_of,
                                returned |-> called.returned, raised |-> called.raised])
    /\ UNCHANGED <<pomdp_manager, nonPomdpVars>>

NextPomdp == ChooseConsistent \/ ChooseConsistentAndBreakSymmetry

SpecPomdp == InitPomdp /\ [][NextPomdp]_vars

----------------------------------------------------------------------------
(* synthesizers/synthesizer.py: the drivers SynthesizerPOMDP.strategy_2    *)
(* (the one run() calls) and strategy_3.  The quotient container and its   *)
(* pomdp_manager are not part of these sources: a POMDP with three         *)
(* observations is taken, of which observations 0 and 1 get one action     *)
(* hole per memory cell and observation 2 one memory hole per memory cell. *)

\* iterations of the loop of strategy_3 that are explored (range(10) in the
\* source)
MaxIterations == 2

\* pomdp_manager.action_holes / memory_holes after unfoldPartialMemory()
\* with memory[obs + 1] cells at observation obs
unfoldPartialMemory(memory) ==
    [observations |-> 3,
     memory |-> memory,
     action_holes |-> <<[k \in 1..memory[1] |-> k],
                        [k \in 1..memory[2] |-> memory[1] + k],
                        <<>>>>,
     memory_holes |-> <<<<>>, <<>>,
                        [k \in 1..memory[3] |-> memory[1] + memory[2] + k]>>]

\* sketch.design_space after unfoldPartialMemory(): a hole with two options
\* for each action hole and memory hole
unfolded_design_space(memory) ==
    DesignSpace([i \in 1..(memory[1] + memory[2] + memory[3]) |->
                    Hole(i, <<0, 1>>, <<"a", "b">>)], <<>>)

\* pomdp_manager.inject_memory(obs): one more memory cell at the observation
inject_memory(pm, obs) == [pm EXCEPT !.memory[obs + 1] = @ + 1]

\* scheduler_selection(mdp, scheduler) on the design space: for each hole a
\* non-empty list of its options
DriverSelections(space) == [DOMAIN space.holes -> {<<0>>, <<1>>, <<0, 1>>}]

\* strategy_3, "identify observations having inconsistent action or memory
\* choices"
inconsistent_observations(pm, selection) ==
    LET inconsistent_holes == {hole_index \in DOMAIN selection : Len(selection[hole_index]) > 1}
    IN  {obs \in 0..(pm.observations - 1) :
            \E hole_index \in Range(pm.action_holes[obs + 1] \o pm.memory_holes[obs + 1]) :
                hole_index \in inconsistent_holes}

\* [obs for obs in obs_list if obs_memory_size[obs] < max_memory_size]
can_add_memory(pm, obs_memory_size, max_memory_size) ==
    SelectSeq(range(pm.observations),
              LAMBDA obs : obs_memory_size[obs + 1] < max_memory_size)

\* [obs for obs in can_add_memory if obs in inconsistent_obs]
want_add_memory(can_add, inconsistent_obs) ==
    SelectSeq(can_add, LAMBDA obs : obs \in inconsistent_obs)

\* strategy_3, from "inject memory into observation having inconsistent
\* action holes" to the end of the iteration: the locals afterwards, and
\* the exception raised
add_memory(pm, obs_memory_size, max_memory_size, inconsistent_obs) ==
    LET wanted == want_add_memory(can_add_memory(pm, obs_memory_size, max_memory_size),
                                  inconsistent_obs)
        raised_size == IF wanted = <<>> THEN max_memory_size + 1 ELSE max_memory_size
        wanted_then == IF wanted = <<>>
                       THEN want_add_memory(can_add_memory(pm, obs_memory_size, raised_size),
                                            inconsistent_obs)
                       ELSE wanted
    IN  IF wanted_then = <<>>
        THEN [pm |-> pm, obs_memory_size |-> obs_memory_size, max_memory_size |-> raised_size,
              injected |-> None, raised |-> Some("AssertionError")]
        ELSE [pm |-> inject_memory(pm, wanted_then[1]),
              obs_memory_size |-> [obs_memory_size EXCEPT ![wanted_then[1] + 1] = @ + 1],
              max_memory_size |-> raised_size,
              injected |-> Some(wanted_then[1]), raised |-> None]

driverFrame == <<family, origin, refines, satVars, synthVars, pomdp_call, nonDriverVars>>

InitDriver ==
    /\ pomdp_manager = unfoldPartialMemory(<<1, 1, 1>>)
    /\ design_space = unfolded_design_space(<<1, 1, 1>>)
    /\ \E strategy \in {2, 3} :
        driver = [strategy |-> strategy,
                  pc |-> IF strategy = 2 THEN "strategy_2" ELSE "strategy_3",
                  selection |-> <<>>, observation_choices |-> <<>>,
                  consistent_restriction |-> <<>>, obs |-> 0,
                  obs_memory_size |-> <<1, 1, 1>>, max_memory_size |-> 1, i |-> 0,
                  inconsistent_obs |-> {}, round_injected |-> <<>>, events |-> <<>>,
                  raised |-> None]
    /\ pomdp_call = None
    /\ family = <<>>
    /\ origin = <<>>
    /\ refines = 0
    /\ solver = None
    /\ assignment = None
    /\ picked = FALSE
    /\ promised = {}
    /\ NoSynthesis
    /\ NoHeap
    /\ NoColoring
    /\ NoStage
    /\ NoStorm
    /\ NoBuild
    /\ NoCheck
    /\ NoQueue
    /\ NoSim

\* strategy_2 up to its loop: unfold, model check, scheduler selection,
\* observation_choices, consistent_restriction, choose_consistent, synthesize
Strategy2Analyze ==
    /\ driver.pc = "strategy_2"
    /\ LET pm == unfoldPartialMemory(pomdp_manager.memory)
           space == unfolded_design_space(pomdp_manager.memory)
       IN  /\ pomdp_manager' = pm
           /\ design_space' = space
           /\ \E selection \in DriverSelections(space) :
                LET choices_of == observation_choices(pm, selection)
                    restriction == consistent_restriction(choices_of)
                    called == choose_consistent(pm, space, restriction)
                IN  driver' = [driver EXCEPT
                        !.selection = selection,
                        !.observation_choices = choices_of,
                        !.consistent_restriction = restriction,
                        !.inconsistent_obs = inconsistent_observations(pm, selection),
                        !.events = IF called.raised # None THEN @ \o <<"unfold">>
                                   ELSE @ \o <<"unfold", "synthesize">>,
                        !.raised = called.raised,
                        !.pc = IF called.raised # None THEN "raised" ELSE "strategy_2.loop"]
    /\ UNCHANGED driverFrame

\* strategy_2, one observation of "gradually inject memory to inconsistent
\* observations", or the end of that loop
Strategy2Observation ==
    /\ driver.pc = "strategy_2.loop"
    /\ IF driver.obs = pomdp_manager.observations
       THEN /\ driver' = [driver EXCEPT !.pc = "done"]
            /\ UNCHANGED <<pomdp_manager, design_space>>
       ELSE IF /\ pomdp_manager.action_holes[driver.obs + 1] # <<>>
               /\ driver.obs \notin DOMAIN driver.consistent_restriction
       THEN LET injected == inject_memory(pomdp_manager, driver.obs)
                pm == unfoldPartialMemory(injected.memory)
                space == unfolded_design_space(injected.memory)
                called == choose_consistent_and_break_symmetry(pm, space,
                                                               driver.observation_choices)
            IN  /\ pomdp_manager' = pm
                /\ design_space' = space
                /\ driver' = [driver EXCEPT
                        !.round_injected = Append(@, driver.obs),
                        !.events = IF called.raised # None
                                   THEN @ \o <<"inject", "unfold">>
                                   ELSE @ \o <<"inject", "unfold", "synthesize">>,
                        !.raised = called.raised,
                        !.obs = IF called.raised # None THEN @ ELSE @ + 1,
                        !.pc = IF called.raised # None THEN "raised" ELSE @]
       ELSE /\ driver' = [driver EXCEPT !.obs = @ + 1]
            /\ UNCHANGED <<pomdp_manager, design_space>>
    /\ UNCHANGED driverFrame

\* one iteration of the loop of strategy_3
Strategy3Iteration ==
    /\ driver.pc = "strategy_3"
    /\ driver.i < MaxIterations
    /\ LET pm == unfoldPartialMemory(pomdp_manager.memory)
           space == unfolded_design_space(pomdp_manager.memory)
       IN  /\ design_space' = space
           /\ \E selection \in DriverSelections(space) :
                LET inconsistent_obs == inconsistent_observations(pm, selection)
                    added == add_memory(pm, driver.obs_memory_size, driver.max_memory_size,
                                        inconsistent_obs)
                IN  /\ pomdp_manager' = added.pm
                    /\ driver' = [driver EXCEPT
                            !.selection = selection,
                            !.inconsistent_obs = inconsistent_obs,
                            !.obs_memory_size = added.obs_memory_size,
                            !.max_memory_size = added.max_memory_size,
                            !.round_injected = IF added.injected = None THEN <<>>
                                               ELSE <<The(added.injected)>>,
                            !.events = IF added.raised # None
                                       THEN @ \o <<"unfold", "synthesize">>
                                       ELSE @ \o <<"unfold", "synthesize", "inject">>,
                            !.raised = added.raised,
                            !.i = IF added.raised # None THEN @ ELSE @ + 1,
                            !.pc = IF added.raised # None THEN "raised" ELSE @]
    /\ UNCHANGED driverFrame

NextDriver == Strategy2Analyze \/ Strategy2Observation \/ Strategy3Iteration

SpecDriver == InitDriver /\ [][NextDriver]_vars

----------------------------------------------------------------------------
(* simulation/simulation.py: class SimulatedModel.  The underlying model   *)
(* is an object of the model checker: nr_states, initial_states and a      *)
(* transition matrix with one row group per state and one row per action;  *)
(* a row is a list of entries with a column (the successor) and a value    *)
(* (the probability, a pair numerator/denominator).  States are numbered   *)
(* from 0 as in the source, so the row group of state s is at s + 1.       *)

\* the longest path asked for
MaxLength == 3

\* an entry of a row
Entry(column, value) == [column |-> column, value |-> value]

\* the models simulated: in the first, state 0 has an action that leaves it
\* (with an entry of probability 0 for state 3) and an action that loops,
\* states 2 and 3 are absorbing; in the second, the first action of state 0
\* loops and the second one leaves, state 2 is absorbing
SimModels ==
    {[nr_states |-> 4, initial_states |-> <<0>>,
      transition_matrix |->
        << << <<Entry(1, <<1, 2>>), Entry(2, <<1, 2>>), Entry(3, <<0, 1>>)>>,
              <<Entry(0, <<1, 1>>)>> >>,
           << <<Entry(0, <<1, 2>>), Entry(3, <<1, 2>>)>> >>,
           << <<Entry(2, <<1, 1>>)>>, <<Entry(2, <<1, 1>>)>> >>,
           << <<Entry(3, <<1, 1>>)>> >> >>],
     [nr_states |-> 3, initial_states |-> <<0>>,
      transition_matrix |->
        << << <<Entry(0, <<1, 1>>)>>, <<Entry(1, <<1, 1>>)>> >>,
           << <<Entry(1, <<1, 2>>), Entry(2, <<1, 2>>)>> >>,
           << <<Entry(2, <<1, 1>>)>> >> >>]}

\* model.get_nr_available_actions(state)
get_nr_available_actions(model, state) == Len(model.transition_matrix[state + 1])

\* the row group of a state in state_row_group: (columns, values) of each row
row_group(model, state) ==
    [row_index \in DOMAIN model.transition_matrix[state + 1] |->
        LET row == model.transition_matrix[state + 1][row_index]
        IN  <<[k \in DOMAIN row |-> row[k].column], [k \in DOMAIN row |-> row[k].value]>>]

\* a state counted as absorbing when the entries of its first row lead back to it
is_absorbing_first_row(model, state) ==
    LET rows == model.transition_matrix[state + 1]
    IN  rows # <<>> => \A k \in DOMAIN rows[1] : rows[1][k].column = state

\* the flag of a state in state_is_absorbing: no entry of any row of the
\* state has a column other than the state
is_absorbing(model, state) ==
    LET rows == model.transition_matrix[state + 1]
    IN  \A row_index \in DOMAIN rows :
            \A k \in DOMAIN rows[row_index] : rows[row_index][k].column = state

\* SimulatedModel(model)
SimulatedModel(model) ==
    [model |-> model,
     current_state |-> model.initial_states[1],
     state_row_group |-> [s \in 1..model.nr_states |-> row_group(model, s - 1)],
     state_is_absorbing |-> [s \in 1..model.nr_states |-> is_absorbing(model, s - 1)]]

\* sample_action: the values random.randint(0, num_actions - 1) can give
sample_action(self, state) == 0..(get_nr_available_actions(self.model, state) - 1)

\* a successor drawn uniformly from the columns of the row
sample_successor_uniform(self, state, action) ==
    Range(self.state_row_group[state + 1][action + 1][1])

\* sample_successor: the values random.choices(succs, probs)[0] can give, the
\* successors whose weight is positive
sample_successor(self, state, action) ==
    LET succs == self.state_row_group[state + 1][action + 1][1]
        probs == self.state_row_group[state + 1][action + 1][2]
    IN  {succs[k] : k \in {j \in DOMAIN succs : probs[j][1] > 0}}

InitSim ==
    /\ \E model \in SimModels :
        sim = [self |-> SimulatedModel(model), pc |-> "idle", start |-> 0, length |-> 0,
               i |-> 0, state |-> 0, path |-> <<>>]
    /\ design_space = <<>>
    /\ family = <<>>
    /\ origin = <<>>
    /\ refines = 0
    /\ solver = None
    /\ assignment = None
    /\ picked = FALSE
    /\ promised = {}
    /\ NoSynthesis
    /\ NoHeap
    /\ NoColoring
    /\ NoStage
    /\ NoStorm
    /\ NoBuild
    /\ NoCheck
    /\ NoQueue
    /\ NoPomdp
    /\ NoDriver

\* sample_path(state, length) is called
SamplePathCall ==
    /\ sim.pc \in {"idle", "returned"}
    /\ \E state \in 0..(sim.self.model.nr_states - 1), length \in 0..MaxLength :
        sim' = [sim EXCEPT !.pc = "loop", !.start = state, !.length = length,
                           !.i = 0, !.state = state, !.path = <<>>]
    /\ UNCHANGED nonSimVars

\* one iteration of the loop of sample_path, or the return after the last
\* iteration or the break
SamplePathIteration ==
    /\ sim.pc = "loop"
    /\ IF sim.i >= sim.length \/ sim.self.state_is_absorbing[sim.state + 1]
       THEN sim' = [sim EXCEPT !.pc = "returned"]
       ELSE \E action \in sample_action(sim.self, sim.state) :
            \E successor \in sample_successor(sim.self, sim.state, action) :
                sim' = [sim EXCEPT !.i = @ + 1,
                                   !.path = Append(@, <<sim.state, action>>),
                                   !.state = successor]
    /\ UNCHANGED nonSimVars

NextSim == SamplePathCall \/ SamplePathIteration

SpecSim == InitSim /\ [][NextSim]_vars

----------------------------------------------------------------------------
(* Properties of the refinement algebra (SpecHoles).                       *)

\* C10. Refinement monotonicity: a family obtained from F by any sequence of
\* assume_hole_suboptions, assume_suboptions, pick_any (and copy) has the holes
\* of F in the same order, each with a subset of its options in F; its size is
\* at most F's and each of its assignments is an assignment of F.
C10_RefinementMonotone ==
    /\ num_holes(family) = num_holes(origin)
    /\ \A i \in hole_indices(family) :
        /\ family.holes[i].name = origin.holes[i].name
        /\ Range(family.holes[i].options) \subseteq Range(origin.holes[i].options)
    /\ Holes_size(family) <= Holes_size(origin)
    /\ Assignments(family) \subseteq Assignments(origin)

\* a singleton obtained in two refinements from a family of at least 4 members
\* whose first hole does not start at option 0
C10_Witness ==
    /\ refines = 2
    /\ Holes_size(family) = 1
    /\ Holes_size(origin) >= 4
    /\ origin.holes[1].options[1] # 0

----------------------------------------------------------------------------
(* Properties of the enumeration interface (SpecSat).                      *)

\* the valuations the clauses of the solver exclude
Excluded(s) == IF s = None THEN {} ELSE The(s).blocked

\* the assignments the solver still has a model for
Pickable(s) == IF s = None THEN {} ELSE Valuations(The(s)) \ The(s).blocked

\* C1. Blocking soundness: after exclude_assignment(a, c) on a family F, a later
\* pick_assignment on F (whatever pick_assignment and exclude_assignment calls
\* come in between) returns a member of F that does not agree with a on every
\* hole of c: it returns no member of F's generalization of (a, c).
C1_BlockingSoundness ==
    (picked /\ assignment # None) =>
        /\ includes(family, OptionsOf(The(assignment)))
        /\ OptionsOf(The(assignment)) \notin promised

\* a pick on a family that still holds members blocked by earlier calls
C1_Witness ==
    /\ picked
    /\ assignment # None
    /\ Cardinality(promised) >= 3
    /\ promised \cap Assignments(family) # {}

\* C8. Blocking precision: the assignments excluded by the solver are exactly
\* those that equal a witness on every hole of its conflict and take an option
\* of the family on every other hole; every other assignment stays pickable.
\* For three holes {0,1}, once the assignments of the form {0,0,*} were
\* excluded, exactly 6 of the 8 assignments remain and none has that form.
C8_BlockingPrecision ==
    solver # None =>
        /\ Excluded(solver) = promised
        /\ Pickable(solver) = Assignments(design_space) \ promised
        /\ (/\ design_space = SketchSpace(<<2, 2, 2>>, SketchProperties)
            /\ promised = Generalization(design_space,
                            Holes_assume_suboptions(design_space, <<<<0>>, <<0>>, <<0>>>>), {1, 2}))
           => /\ Cardinality(Pickable(solver)) = 6
              /\ \A m \in Pickable(solver) : ~(m[1] = 0 /\ m[2] = 0)

\* witness {0,0,0} was excluded with conflict {h0,h1} on the three-hole family
C8_Witness ==
    /\ design_space = SketchSpace(<<2, 2, 2>>, SketchProperties)
    /\ family.holes = design_space.holes
    /\ assignment = Some(Holes_assume_suboptions(design_space, <<<<0>>, <<0>>, <<0>>>>))
    /\ ~picked
    /\ Cardinality(promised) = 2
    /\ Cardinality(Pickable(solver)) = 6

\* C9 as stated. Blocking monotonicity: no operation, solver initialisation
\* included, makes an excluded assignment pickable again.
C9_MonotoneAcrossInitialize ==
    [][Excluded(solver) \subseteq Excluded(solver')]_vars

\* C9 as amended. Every operation other than z3_initialize keeps every excluded
\* assignment excluded; z3_initialize installs a new solver without clauses.
C9_MonotoneUntilInitialize ==
    [][\/ Excluded(solver) \subseteq Excluded(solver')
       \/ solver' = z3_initialize(design_space)]_vars

\* assignments were excluded, another family was encoded and picked from
C9_Witness ==
    /\ Cardinality(Excluded(solver)) >= 2
    /\ family.holes # design_space.holes
    /\ family.encoding # None
    /\ picked

----------------------------------------------------------------------------
(* Properties of the synthesizers (SpecSynth).                             *)

\* SAT or UNSAT: whether a run ended with a recorded assignment
Verdict(result) == result.assignment # None

\* the members of the design space that satisfy every property
Solutions == {m \in Members(design_space) : Satisfies(m)}

InCegis == pc \in {"CEGIS.loop", "CEGIS.break", "CEGIS.done"}

\* C2. AR soundness: on a run without an optimality property, an assignment
\* returned by SynthesizerAR.synthesize is a member of the input family whose
\* DTMC satisfies every property, and when no assignment is returned no member
\* of the input family satisfies all properties.
C2_ArSoundness ==
    (finished.AR # None /\ optimality_property = None) =>
        LET returned == The(finished.AR).assignment
        IN  IF returned # None
            THEN /\ Holes_size(The(returned)) = 1
                 /\ OptionsOf(The(returned)) \in Solutions
            ELSE Solutions = {}

\* AR returned an assignment of a family it reached by splitting, in a design
\* space that also holds violating members
C2_Witness ==
    /\ finished.AR # None
    /\ optimality_property = None
    /\ The(finished.AR).assignment # None
    /\ stat.iterations_mdp >= 3
    /\ Solutions # Members(design_space)
    /\ pc = "AR.done"

\* C3. CEGIS termination bound: the number of loop iterations of
\* SynthesizerCEGIS.run (picked assignments that are model-checked) never
\* exceeds the size of the design space, with or without an optimality property.
C3_CegisBound ==
    InCegis => stat.iterations_dtmc <= Holes_size(design_space)

\* a run that needed every one of the four iterations it is allowed
C3_Witness ==
    /\ pc = "CEGIS.done"
    /\ Holes_size(design_space) = 4
    /\ stat.iterations_dtmc = 4

C5_OptimumMonotone ==
    [][(pc \in {"AR.loop", "CEGIS.loop"} /\ optimality_property # None) =>
        LET old == The(optimality_property).optimum
            new == The(optimality_property').optimum
            minimizing == The(optimality_property).minimizing
        IN  /\ optimality_property' # None
            /\ updates' # updates => new # None
            /\ old # None =>
                /\ new # None
                /\ ~Better(The(old), The(new), minimizing)
                /\ updates' # updates => Better(The(new), The(old), minimizing)
            /\ updates' = updates => new = old]_vars

\* a CEGIS run that replaced an optimum by a better one
C5_Witness ==
    /\ pc = "CEGIS.loop"
    /\ updates = 2
    /\ optimality_property # None
    /\ The(finished.AR).optimum # None

\* C6. AR/CEGIS agreement: on the same sketch SynthesizerAR and
\* SynthesizerCEGIS end with the same SAT/UNSAT verdict and the same optimum,
\* and with the same assignment when a single assignment attains the optimum.
C6_ArCegisAgreement ==
    (finished.AR # None /\ finished.CEGIS # None) =>
        LET ar == The(finished.AR)
            cegis == The(finished.CEGIS)
            attaining == {m \in Solutions : Some(Value(m)) = ar.optimum}
        IN  /\ Verdict(ar) = Verdict(cegis)
            /\ ar.optimum = cegis.optimum
            /\ (ar.optimum # None /\ Cardinality(attaining) = 1) =>
                    OptionsOf(The(ar.assignment)) = OptionsOf(The(cegis.assignment))

\* both runs ended SAT on the one assignment that attains the optimum, in a
\* design space with other satisfying members
C6_Witness ==
    /\ finished.AR # None
    /\ finished.CEGIS # None
    /\ The(finished.AR).optimum # None
    /\ Cardinality(Solutions) >= 3
    /\ Cardinality({m \in Solutions : Some(Value(m)) = The(finished.AR).optimum}) = 1
    /\ Holes_size(design_space) = 4

\* C7. Hybrid equivalence: SynthesizerHybrid.run returns the SAT verdict and
\* the optimum that SynthesizerAR returns on the same sketch.
C7_HybridEquivalence ==
    (finished.AR # None /\ finished.Hybrid # None) =>
        /\ The(finished.Hybrid).error = None
        /\ Verdict(The(finished.Hybrid)) = Verdict(The(finished.AR))
        /\ The(finished.Hybrid).optimum = The(finished.AR).optimum

----------------------------------------------------------------------------
(* Properties of the objects of holes.py (SpecHeap).                       *)

RefinementMethods ==
    {"Hole.assume_suboptions", "assume_hole_suboptions", "assume_suboptions", "pick_any",
     "pick_assignment"}

\* C11. Copy isolation: after G = F.copy(), F a Hole, a Holes or a
\* DesignSpace, whatever the client does to G (replacing a hole, changing or
\* rebinding a hole's option list, appending to or removing from
\* G.properties), the holes, option lists and properties of F are what they
\* were before the call.
C11_CopyIsolation ==
    made_by = Some("copy") => Value_of(heap, source) = snapshot

\* a copy of a DesignSpace that was mutated twice and no longer equals its source
C11_Witness ==
    /\ made_by = Some("copy")
    /\ heap[source].kind = "DesignSpace"
    /\ mutations = MaxMutations
    /\ Value_of(heap, obtained).holes # snapshot.holes
    /\ Value_of(heap, obtained).properties # snapshot.properties

\* C12. Refinement purity: assume_suboptions of a hole, assume_hole_suboptions,
\* assume_suboptions, pick_any and pick_assignment return a family made of
\* new objects, and the family they are called on keeps its holes, option
\* sequences and properties, also after the client mutates the result or a
\* suboption list of its own that it passed; the result shares no list with
\* the source even when the list passed is an option list of the source.
C12_RefinementPurity ==
    (made_by # None /\ The(made_by) \in RefinementMethods) =>
        /\ Value_of(heap, source) = snapshot
        /\ Parts(heap, obtained) \cap (Parts(heap, source) \cup arguments) = {}

\* assume_hole_suboptions was given an option list of the source itself, and
\* the result was mutated afterwards
C12_Witness ==
    /\ made_by = Some("assume_hole_suboptions")
    /\ arguments # {}
    /\ arguments \subseteq Parts(heap, source)
    /\ mutations = MaxMutations
    /\ Value_of(heap, obtained).holes # snapshot.holes

----------------------------------------------------------------------------
(* Properties of pick_any (SpecHoles).                                     *)

\* scenario S4: F = h0:{0,1,2}, h1:{0,1} and F' = F.assume_hole_suboptions(0, [1,2])
S4_F == SketchSpace(<<3, 2>>, SketchProperties)

S4_F_refined == assume_hole_suboptions(S4_F, 1, <<1, 2>>)

\* C13. pick_any returns a singleton family with the holes of the source in
\* the same number and order, each holding exactly the first option of the
\* source hole's option sequence; for F = h0:{0,1,2}, h1:{0,1} and
\* F' = F.assume_hole_suboptions(0, [1,2]): F.size = 6, F'.size = 4,
\* F.pick_any() = {h0=0, h1=0} and F'.pick_any() = {h0=1, h1=0}.
C13_PickAnyFirstOptions ==
    [][PickAny =>
        /\ Holes_size(family') = 1
        /\ num_holes(family') = num_holes(family)
        /\ \A i \in DOMAIN family.holes :
            /\ family'.holes[i].name = family.holes[i].name
            /\ family'.holes[i].option_labels = family.holes[i].option_labels
            /\ family'.holes[i].options = <<family.holes[i].options[1]>>
        /\ Holes_size(S4_F) = 6
        /\ Holes_size(S4_F_refined) = 4
        /\ [i \in 1..2 |-> pick_any(S4_F).holes[i].options] = <<<<0>>, <<0>>>>
        /\ [i \in 1..2 |-> pick_any(S4_F_refined).holes[i].options] = <<<<1>>, <<0>>>>]_vars

\* pick_any was called on F' of scenario S4 and returned {h0=1, h1=0}
C13_Witness ==
    /\ origin.holes = S4_F_refined.holes
    /\ refines = 1
    /\ Holes_size(family) = 1
    /\ OptionsOf(family) = <<1, 0>>

----------------------------------------------------------------------------
(* Properties of CombinationColoring (SpecColoring).                       *)

\* C14. Coloring round-trip and idempotence: after get_or_make_color(t)
\* returned color c, reverse_coloring[c] is t (and so it is for every colored
\* combination); a call for a combination that is colored already, whatever
\* other combinations were colored in between, returns the color it has and
\* leaves both dictionaries as they are.
C14_ColoringRoundTrip ==
    [][last_color' # None =>
        LET t == The(last_color').hole_assignment
            c == The(last_color').color
        IN  /\ c \in DOMAIN reverse_coloring'
            /\ reverse_coloring'[c] = t
            /\ \A u \in DOMAIN coloring' :
                /\ coloring'[u] \in DOMAIN reverse_coloring'
                /\ reverse_coloring'[coloring'[u]] = u
            /\ t \in DOMAIN coloring =>
                /\ c = coloring[t]
                /\ coloring' = coloring
                /\ reverse_coloring' = reverse_coloring]_vars

\* the first combination colored was asked for again after two others
C14_Witness ==
    /\ last_color # None
    /\ The(last_color).color = 1
    /\ Cardinality(DOMAIN coloring) = 3

----------------------------------------------------------------------------
(* Properties of StageControl (SpecStage).                                 *)

----------------------------------------------------------------------------
(* Properties of the fusion with the external oracle (SpecStorm).          *)

\* the step is a call of the method on the StormPOMDPControl object
StormCalled(method) == storm_call' # None /\ The(storm_call').method = method

ActionHolesOf(obs) == Range(Quotient.observation_action_holes[obs + 1])
MemoryHolesOf(obs) == Range(Quotient.observation_memory_holes[obs + 1])
Observations == 0..(Quotient.observations - 1)

Admitted(fam, records) ==
    {a \in Assignments(fam) :
        \A rec \in Range(records) : a[rec.hole] \in Range(rec.restriction)}

\* C17 (as stated): for the restrictions r_1..r_n, subfamily i has the records
\* r_j for j < i and, as record i, the options of the hole in the family that
\* are not in r_i; the subfamilies are pairwise disjoint and together hold
\* exactly the assignments of the family that violate some r_j.
C17_PrefixFlip ==
    [][StormCalled("get_subfamilies") =>
        LET call == The(storm_call')
            r == call.restrictions
            subfamilies == call.returned
            fam == call.family
        IN  /\ Len(subfamilies) = Len(r)
            /\ \A i \in DOMAIN r :
                /\ \A j \in 1..(i - 1) : subfamilies[i][j] = r[j]
                /\ subfamilies[i][i].hole = r[i].hole
                /\ Range(subfamilies[i][i].restriction) =
                        Range(fam.holes[r[i].hole].options) \ Range(r[i].restriction)
            /\ \A i, j \in DOMAIN r :
                i # j => Admitted(fam, subfamilies[i]) \cap Admitted(fam, subfamilies[j]) = {}
            /\ UNION {Admitted(fam, subfamilies[i]) : i \in DOMAIN r} =
                    {a \in Assignments(fam) :
                        \E j \in DOMAIN r : a[r[j].hole] \notin Range(r[j].restriction)}
    ]_vars

\* C18: after update_data(v, minimizing, assignment) with v and the oracle's
\* bound present, is_storm_better holds exactly if the bound is strictly
\* better than v (smaller when minimizing, greater when maximizing), so not on
\* a tie; with v or the bound absent no attribute of the object changes.
C18_QualityFlag ==
    [][StormCalled("update_data") =>
        LET call == The(storm_call')
        IN  IF call.paynt_value # None /\ storm_control.storm_bounds # None
            THEN LET v == The(call.paynt_value)
                     bound == The(storm_control.storm_bounds)
                 IN  /\ storm_control'.storm_bounds = storm_control.storm_bounds
                     /\ storm_control'.is_storm_better =
                            IF call.minimizing THEN bound < v ELSE bound > v
            ELSE storm_control' = storm_control
    ]_vars

\* update_data was called with a value equal to the oracle's bound, and the
\* flag is down
C18_Witness ==
    /\ storm_call # None
    /\ The(storm_call).method = "update_data"
    /\ The(storm_call).paynt_value # None
    /\ The(storm_call).paynt_value = storm_control.storm_bounds
    /\ ~storm_control.is_storm_better

----------------------------------------------------------------------------
(* Properties of pick_assignment on a solver that gives up (SpecSat).      *)

\* C19: when solver.check gives anything but sat (unsat or unknown),
\* pick_assignment returns None; it adds no clause and leaves the solver and
\* the family as they were.
C19_UnknownIsExhaustion ==
    [][PickAssignment =>
        /\ solver' = solver
        /\ family' = family
        /\ promised' = promised
        /\ The(solver_result') # "sat" => assignment' = None
    ]_vars

\* the solver gave up on a family that still had members to pick, and
\* pick_assignment returned None
C19_Witness ==
    /\ solver_result = Some("unknown")
    /\ picked
    /\ assignment = None
    /\ solver # None
    /\ family.encoding # None
    /\ SolverModels(The(solver), The(family.encoding)) # {}
    /\ promised # {}

----------------------------------------------------------------------------
(* Properties of the constructors (SpecBuild).                             *)

\* a hole without options, or with an option that has no label
InvalidHole(hole) ==
    \/ hole.options = <<>>
    \/ \E option \in Range(hole.options) : option \notin 0..(Len(hole.option_labels) - 1)

\* a family with an invalid hole or with two holes of the same name
InvalidFamily(fam) ==
    \/ \E i \in DOMAIN fam.holes : InvalidHole(fam.holes[i])
    \/ \E i, j \in DOMAIN fam.holes : i # j /\ fam.holes[i].name = fam.holes[j].name

\* C20 (as stated): building a hole with an empty option list or with an
\* option-id outside 0..len(option_labels)-1, or a family with such a hole or
\* with two holes of the same name, raises InvalidSketch and yields no object.
C20_InvalidSketchRejected ==
    constructed # None =>
        LET built == The(constructed)
        IN  (IF built.class = "Hole" THEN InvalidHole(built.object)
             ELSE InvalidFamily(built.object))
            => built.raised = Some("InvalidSketch")

----------------------------------------------------------------------------
(* Properties of the hand-off of the oracle's result (SpecQueue).          *)

\* the tuples handed over: taken by the synthesis loop or waiting in the queue
HandedOver == received \o (IF s_queue = None THEN <<>> ELSE The(s_queue))

\* C21 (as stated): every get_storm_result call puts one tuple, and no
\* dictionary or list reachable from a tuple handed over is written after the
\* put: each dictionary handed over keeps the value it had when it was put.
C21_HandOffIsolation ==
    /\ s_queue # None => Len(HandedOver) = oracle_self.runs
    /\ \A i \in DOMAIN HandedOver :
            dict_value(oracle_heap, HandedOver[i].result_dict) = HandedOver[i].put

----------------------------------------------------------------------------
(* Properties of the loops of CEGIS and AR (SpecSynth).                    *)

\* C22: every iteration of the CEGIS loop that does not stop the run, also one
\* whose assignment satisfies all properties without improving the optimum,
\* adds a clause that excludes the assignment it analysed, and the assignment
\* was not analysed before in the run.
C22_CegisProgress ==
    [][(pc = "CEGIS.loop" /\ assignment # None /\ pc' = "CEGIS.loop") =>
        LET a == OptionsOf(The(assignment))
        IN  /\ a \notin Excluded(solver)
            /\ a \in Excluded(solver')
            /\ Excluded(solver) \subseteq Excluded(solver')
            /\ a \notin analysed
            /\ stat'.pruned > stat.pruned
            /\ assignment' # None => OptionsOf(The(assignment')) # a
    ]_vars

\* two assignments with the same value that satisfy all properties were
\* analysed under an optimality property: the later one did not improve the
\* optimum, and both are excluded
C22_Witness ==
    /\ pc = "CEGIS.loop"
    /\ optimality_property # None
    /\ \E a, b \in analysed :
        /\ a # b
        /\ Satisfies(a) /\ Satisfies(b)
        /\ Value(a) = Value(b)
        /\ {a, b} \subseteq Excluded(solver)

\* C23: in a CEGIS run with an optimality property the recorded assignment, if
\* there is one, satisfies all properties and its value is the current
\* optimum; an iteration replaces it only by an assignment that satisfies all
\* properties and has a strictly better value, and the loop goes on after
\* that.
C23_CegisBestSoFar ==
    [][(pc' \in {"CEGIS.loop", "CEGIS.done"} /\ optimality_property' # None) =>
        /\ satisfying_assignment' # None =>
            LET recorded == OptionsOf(The(satisfying_assignment'))
            IN  /\ Satisfies(recorded)
                /\ The(optimality_property').optimum = Some(Value(recorded))
        /\ satisfying_assignment' = None => The(optimality_property').optimum = None
        /\ (pc = "CEGIS.loop" /\ satisfying_assignment' # satisfying_assignment) =>
            /\ satisfying_assignment' = assignment
            /\ pc' = "CEGIS.loop"
            /\ satisfying_assignment # None =>
                Better(Value(OptionsOf(The(satisfying_assignment'))),
                       Value(OptionsOf(The(satisfying_assignment))),
                       The(optimality_property).minimizing)
    ]_vars

\* a recorded assignment was replaced by a better one and the loop went on to
\* analyse more
C23_Witness ==
    /\ pc = "CEGIS.loop"
    /\ optimality_property # None
    /\ updates = 2
    /\ satisfying_assignment # None
    /\ \E a \in analysed :
        /\ Satisfies(a)
        /\ Better(Value(OptionsOf(The(satisfying_assignment))), Value(a),
                  The(optimality_property).minimizing)
    /\ assignment # None

\* the sum of the sizes of the families of a stack
RECURSIVE StackSize(_)
StackSize(stack) ==
    IF stack = <<>> THEN 0 ELSE Holes_size(Head(stack)) + StackSize(Tail(stack))

\* C24: with a splitter that partitions the family, at every loop head of
\* SynthesizerAR.synthesize the pruned models and the sizes of the families on
\* the stack add up to the size of the input family; a run that ends without
\* a satisfying assignment has pruned all of it (4 models for two holes with
\* two options each).
C24_ArPruningAccount ==
    /\ pc = "AR.loop" => stat.pruned + StackSize(families) = Holes_size(design_space)
    /\ (pc = "AR.done" /\ The(finished.AR).assignment = None) =>
            /\ stat.pruned = Holes_size(design_space)
            /\ DOMAIN design_space.holes = 1..2 => stat.pruned = 4

\* the run on two holes with two options each ended without an assignment
\* after splits, and 4 models are pruned
C24_Witness ==
    /\ pc = "AR.done"
    /\ The(finished.AR).assignment = None
    /\ DOMAIN design_space.holes = 1..2
    /\ \A m \in Members(design_space) : ~Satisfies(m)
    /\ stat.iterations_mdp >= 3
    /\ stat.pruned = 4

----------------------------------------------------------------------------
(* More properties of StageControl (SpecStage).                            *)

\* a call of step(models_pruned) has just been made on a controller that was
\* in the AR stage (in_cegar) or in the CEGIS stage (~in_cegar)
StageStepped(in_cegar) ==
    /\ stage_calls' # stage_calls
    /\ The(stage_call').method = "step"
    /\ stage_control.stage_cegar = in_cegar

\* C26. Stage controller AR step: a new controller is in the AR stage with
\* factor 1.0, and every step taken in the AR stage ends that stage: it adds
\* the elapsed time to the AR total, sets cegis_allocated_time to elapsed x
\* factor, switches to CEGIS with a restarted timer and returns True.
C26_ArStepSwitches ==
    /\ stage_calls = 0 => (stage_control.stage_cegar
                           /\ stage_control.cegis_allocated_time_factor = One)
    /\ [][StageStepped(TRUE) =>
            LET current_time == Rat(The(stage_call').elapsed, 1)
            IN  /\ The(stage_call').raised = None
                /\ The(stage_call').returned = Some(TRUE)
                /\ ~stage_control'.stage_cegar
                /\ stage_control'.stage_timer = "running"
                /\ stage_control'.stage_time_cegar =
                        RatAdd(stage_control.stage_time_cegar, current_time)
                /\ stage_control'.cegis_allocated_time =
                        RatMul(current_time, stage_control.cegis_allocated_time_factor)
       ]_vars

----------------------------------------------------------------------------
(* The family stack of SynthesizerHybrid (SpecSynth).                      *)

\* C28. Hybrid family conservation: no family with unexplored, unexcluded
\* assignments is dropped from the stack of SynthesizerHybrid: a family taken
\* from it is pruned (its size credited), gives the satisfying assignment that
\* ends the search, or is pushed back.  So when the run has ended, either an
\* assignment was found or the models pruned and the families still on the
\* stack add up to the design space.
C28_HybridConservation ==
    finished.Hybrid # None =>
        \/ The(finished.Hybrid).assignment # None
        \/ stat.pruned + StackSize(families) = Holes_size(design_space)

----------------------------------------------------------------------------
(* Properties of the restrictions of SynthesizerPOMDP (SpecPomdp).         *)

PomdpCalled(method) == pomdp_call # None /\ The(pomdp_call).method = method

\* C29. POMDP consistent restriction: for every observation whose action-hole
\* selection is a singleton, choose_consistent returns a family in which
\* that action hole has exactly the selected option, and every other hole
\* has the options it has in the full design space; the full design space
\* is not modified.
C29_ConsistentRestriction ==
    PomdpCalled("choose_consistent") =>
        LET call == The(pomdp_call)
            restricted == {pomdp_manager.action_holes[obs + 1][1] : obs \in DOMAIN call.argument}
        IN  /\ call.raised = None
            /\ call.returned # None
            /\ \A obs \in DOMAIN call.argument :
                    The(call.returned).holes[pomdp_manager.action_holes[obs + 1][1]].options
                        = call.argument[obs]
            /\ \A hole \in DOMAIN design_space.holes \ restricted :
                    The(call.returned).holes[hole].options = design_space.holes[hole].options
            /\ design_space = PomdpDesignSpace

\* C30. POMDP symmetry breaking: for every observation that owns more than
\* one action hole, choose_consistent_and_break_symmetry removes from each
\* such hole exactly the option the scheduler selected for that same hole,
\* and keeps its other options.
C30_SymmetryBreaking ==
    PomdpCalled("choose_consistent_and_break_symmetry") =>
        LET call == The(pomdp_call)
        IN  \A obs \in DOMAIN call.argument :
                Len(pomdp_manager.action_holes[obs + 1]) > 1 =>
                    /\ call.raised = None
                    /\ call.returned # None
                    /\ \A hole \in Range(pomdp_manager.action_holes[obs + 1]) :
                            Len(call.selection[hole]) = 1 =>
                                The(call.returned).holes[hole].options =
                                    SelectSeq(design_space.holes[hole].options,
                                              LAMBDA option : option # call.selection[hole][1])

----------------------------------------------------------------------------
(* Properties of the drivers of SynthesizerPOMDP (SpecDriver).             *)

\* a round of the driver is over: strategy_2 has ended, or strategy_3 has
\* ended an iteration
RoundOver ==
    \/ driver.pc \in {"done", "raised"}
    \/ driver.strategy = 3 /\ driver.i > 0

\* in the events of the driver every injection is followed by a re-unfold
\* and then an AR run, before the next injection and before the driver ends
InjectionsFollowedUp ==
    \A k \in DOMAIN driver.events :
        driver.events[k] = "inject" =>
            \/ /\ k + 2 <= Len(driver.events)
               /\ driver.events[k + 1] = "unfold"
               /\ driver.events[k + 2] = "synthesize"
            \/ /\ driver.pc \notin {"done", "raised"}
               /\ \A l \in (k + 1)..Len(driver.events) : driver.events[l] # "inject"
               /\ SubSeq(driver.events, k + 1, Len(driver.events)) \in {<<>>, <<"unfold">>}

\* C31. POMDP memory injection: for a scheduler selection the driver injects
\* one memory cell into every observation that has an inconsistent action
\* hole or memory hole, and into no other observation; each injection is
\* followed by a re-unfold and an AR run before the next injection.
C31_MemoryInjection ==
    RoundOver =>
        /\ driver.raised = None
        /\ Range(driver.round_injected) = driver.inconsistent_obs
        /\ InjectionsFollowedUp

\* C32. Bounded memory schedule: in the loop of strategy_3 every
\* observation's memory size stays at or below max_memory_size, the cap is
\* raised, by one, only in an iteration where no inconsistent observation is
\* below it, and the assertion on want_add_memory never fails.
C32_BoundedMemorySchedule ==
    [][(driver.strategy = 3 /\ driver' # driver) =>
        /\ \A obs \in DOMAIN driver'.obs_memory_size :
                driver'.obs_memory_size[obs] <= driver'.max_memory_size
        /\ driver'.max_memory_size # driver.max_memory_size =>
                /\ driver'.max_memory_size = driver.max_memory_size + 1
                /\ \A obs \in driver'.inconsistent_obs :
                        ~(driver.obs_memory_size[obs + 1] < driver.max_memory_size)
        /\ driver'.raised # Some("AssertionError")
    ]_vars

----------------------------------------------------------------------------
(* More properties of CombinationColoring (SpecColoring).                  *)

\* C33. Coloring density: after any sequence of get_or_make_color calls the
\* colors assigned are exactly 1..n for the n distinct combinations inserted,
\* color 0 is assigned to none, coloring and reverse_coloring are inverse to
\* each other, and a call for a new combination returns |coloring| + 1.
C33_ColoringDensity ==
    /\ [](LET n == Cardinality(DOMAIN coloring)
          IN  /\ {coloring[t] : t \in DOMAIN coloring} = 1..n
              /\ DOMAIN reverse_coloring = 1..n
              /\ \A t \in DOMAIN coloring : reverse_coloring[coloring[t]] = t
              /\ \A c \in DOMAIN reverse_coloring : coloring[reverse_coloring[c]] = c
              /\ \A t, u \in DOMAIN coloring : coloring[t] = coloring[u] => t = u)
    /\ [][(last_color' # None /\ The(last_color').hole_assignment \notin DOMAIN coloring) =>
            /\ The(last_color').color = Cardinality(DOMAIN coloring) + 1
            /\ coloring' = dict_set(coloring, The(last_color').hole_assignment,
                                    Cardinality(DOMAIN coloring) + 1)
       ]_vars

\* three combinations are colored, the last call made the third color
C33_Witness ==
    /\ Cardinality(DOMAIN coloring) = 3
    /\ last_color # None
    /\ The(last_color).color = 3
    /\ coloring[The(last_color).hole_assignment] = 3
    /\ DOMAIN reverse_coloring = {1, 2, 3}

\* the options of hole i of the family `refined` are among those of `space`
RefinesSpace(refined, space) ==
    \A i \in DOMAIN space.holes :
        Range(refined.holes[i].options) \subseteq Range(space.holes[i].options)

\* C34. subcolors(subspace) returns exactly the colors whose combination
\* has, at every hole, None or an option of the subspace's hole; so a
\* refinement of the subspace gets a subset of these colors, and the color of
\* a combination that is None everywhere is returned for every subspace.
C34_Subcolors ==
    [][last_subcolors' # last_subcolors =>
        LET subspace == The(last_subcolors').subspace
            returned == The(last_subcolors').colors
        IN  /\ \A color \in 0..MaxColors :
                color \in returned <=>
                    \E t \in DOMAIN coloring :
                        /\ coloring[t] = color
                        /\ \A i \in 1..2 :
                            t[i] \in {None} \cup {Some(o) : o \in Range(subspace.holes[i].options)}
            /\ returned \subseteq 1..MaxColors
            /\ \A refined \in ColoringSubspaces :
                    RefinesSpace(refined, subspace) =>
                        subcolors([coloring |-> coloring, reverse_coloring |-> reverse_coloring],
                                  refined) \subseteq returned
            /\ \A t \in DOMAIN coloring :
                    (\A i \in 1..2 : t[i] = None) => coloring[t] \in returned
            /\ UNCHANGED <<coloring, reverse_coloring>>
    ]_vars

\* subcolors of the subspace in which both holes have the option 1 only
\* returned the color of the combination (None, None) and left out that of a
\* combination with option 0
C34_Witness ==
    /\ last_subcolors # None
    /\ \A i \in 1..2 : The(last_subcolors).subspace.holes[i].options = <<1>>
    /\ \E t, u \in DOMAIN coloring :
        /\ \A i \in 1..2 : t[i] = None
        /\ coloring[t] \in The(last_subcolors).colors
        /\ u[1] = Some(0)
        /\ coloring[u] \notin The(last_subcolors).colors
    /\ Cardinality(The(last_subcolors).colors) = 2

----------------------------------------------------------------------------
(* Enumeration over baselines with arbitrary option-ids (SpecEnum).        *)

\* C35. Enumeration completeness: after z3_initialize on the baseline and
\* z3_encode on a family F, a pick_assignment on F for which the solver gave
\* an answer returns None only when every assignment of F was blocked by an
\* earlier exclude_assignment, also when the option-ids of a hole are not
\* 0..size-1.
C35_EnumerationComplete ==
    (picked /\ assignment = None /\ solver_result # Some("unknown")) =>
        Assignments(family) \subseteq promised

----------------------------------------------------------------------------
(* Termination of SynthesizerAR (SpecArFair).                              *)

\* C36. AR termination: with a splitter whose subfamilies are strictly
\* smaller than the family split, and a model checker that decides every
\* singleton family, SynthesizerAR.synthesize terminates on every input
\* family: the loop is left with an empty stack or with the assignment of a
\* satisfying family.
C36_ArTermination ==
    <>(/\ pc = "AR.done"
       /\ families = <<>> \/ satisfying_assignment # None)

\* a run that split three times and pruned every family has ended
C36_Witness ==
    /\ pc = "AR.done"
    /\ families = <<>>
    /\ satisfying_assignment = None
    /\ stat.iterations_mdp >= 7

----------------------------------------------------------------------------
(* The statistic of SynthesizerCEGIS (SpecSynth).                          *)

\* C37. CEGIS pruned count: throughout a run of SynthesizerCEGIS the number
\* of models reported as pruned is the number of distinct assignments
\* excluded so far, and so exceeds neither the number of assignments picked
\* and model-checked nor the size of the design space, whatever the number
\* of properties an assignment violates.
C37_CegisPrunedCount ==
    InCegis =>
        /\ stat.pruned = Cardinality(Excluded(solver))
        /\ stat.pruned <= Cardinality(analysed)
        /\ stat.pruned <= Holes_size(design_space)

----------------------------------------------------------------------------
(* The families and records handed back to the synthesizer (SpecStorm).    *)

\* C38: each hole of the family returned by get_main_restricted_family has a
\* non-empty list of options, all of them options of that hole in the family
\* passed in, also when no action of the dictionary is among the options of
\* the hole.
C38_OracleRestrictionRefines ==
    [][StormCalled("get_main_restricted_family") =>
        LET call == The(storm_call')
        IN  /\ DOMAIN call.returned.holes = DOMAIN call.family.holes
            /\ \A hole \in DOMAIN call.returned.holes :
                /\ call.returned.holes[hole].options # <<>>
                /\ Range(call.returned.holes[hole].options) \subseteq
                        Range(call.family.holes[hole].options)
    ]_vars

\* the action holes of the quotient
AllActionHoles == UNION {ActionHolesOf(obs) : obs \in Observations}

\* C39: in every subfamily returned by get_subfamilies each action hole of the
\* quotient has exactly one record, and the record of a hole that the
\* prefix-flip construction neither pinned nor flipped has all options of the
\* hole in the family, never the empty list.
C39_SubfamilyRecords ==
    [][StormCalled("get_subfamilies") =>
        LET call == The(storm_call')
            subfamilies == call.returned
            fam == call.family
        IN  \A i \in DOMAIN subfamilies :
                LET records == subfamilies[i]
                    prefix == {call.restrictions[j].hole : j \in 1..i}
                IN  /\ \A hole \in AllActionHoles :
                            Cardinality({k \in DOMAIN records : records[k].hole = hole}) = 1
                    /\ \A k \in DOMAIN records :
                            records[k].hole \notin prefix =>
                                /\ records[k].restriction # <<>>
                                /\ Range(records[k].restriction) =
                                        Range(fam.holes[records[k].hole].options)
    ]_vars

----------------------------------------------------------------------------
(* Properties of the simulated paths (SpecSim).                            *)

\* every transition of every action of the state leads back to the state
Absorbing(model, state) ==
    \A row_index \in DOMAIN model.transition_matrix[state + 1] :
        \A entry \in Range(model.transition_matrix[state + 1][row_index]) :
            entry.column = state

\* the successors the row of the action lists with a positive probability
ListedSuccessors(model, state, action) ==
    {entry.column : entry \in
        {e \in Range(model.transition_matrix[state + 1][action + 1]) : e.value[1] > 0}}

\* C40: the path of sample_path(s, n), while it is built and when it is
\* returned, has at most n pairs (state, action), starts at s, holds no
\* absorbing state, every action is one of the actions available in its
\* state, and the state that follows a pair is a successor that the row of
\* the pair's action lists with a positive probability; a path returned with
\* fewer than n pairs stopped at an absorbing state.
C40_SimulatedPaths ==
    sim # <<>> /\ sim.pc \in {"loop", "returned"} =>
        LET model == sim.self.model
            path == sim.path
            next(k) == IF k < Len(path) THEN path[k + 1][1] ELSE sim.state
        IN  /\ Len(path) <= sim.length
            /\ next(0) = sim.start
            /\ \A k \in DOMAIN path :
                /\ ~Absorbing(model, path[k][1])
                /\ path[k][2] \in 0..(Len(model.transition_matrix[path[k][1] + 1]) - 1)
                /\ next(k) \in ListedSuccessors(model, path[k][1], path[k][2])
            /\ sim.pc = "returned" /\ Len(path) < sim.length => Absorbing(model, sim.state)

\* a path of two pairs returned before its length was reached, which went
\* through the row that lists a successor with probability 0 and stopped at
\* an absorbing state
C40_Witness ==
    /\ sim # <<>>
    /\ sim.pc = "returned"
    /\ sim.length = 3
    /\ Len(sim.path) = 2
    /\ sim.path[2] = <<0, 0>>
    /\ sim.state = 2
    /\ sim.self.model.nr_states = 4

============================================================================
